---- MODULE Spec2Model ----
(***************************************************************************)
(* Hire-mate: resume / job matching backend.                               *)
(*                                                                         *)
(* The module models the scoring and matching code of the backend          *)
(* (backend/app/api/analytics_new.py, analysis.py, job.py and              *)
(* backend/app/services/enhanced_resume_analyzer.py) and the merge step of *)
(* the resume parser (backend/app/services/enhanced_resume_parser.py).     *)
(*                                                                         *)
(* Conventions                                                             *)
(*  - A text is a sequence of tokens; the string it stands for is the      *)
(*    tokens joined by one space (" ".join(tokens)).  The empty token ""   *)
(*    therefore stands for an extra space: <<"a","","","b">> is "a   b".   *)
(*  - A Python float is modelled as the IEEE 754 double it is: sign,       *)
(*    53-bit mantissa and exponent, every operation rounded to nearest.    *)
(*  - list(a_set) has no defined order in Python: the model draws the      *)
(*    order nondeterministically among the permutations.                   *)
(***************************************************************************)
EXTENDS Integers, Sequences, FiniteSets, TLC

VARIABLES
    machine,         \* which part of the program this behaviour exercises
    pc,              \* position of the running handler / function
    resume_skills,   \* set(resume_data['parsed_data']['skills'])
    job_skills,      \* set(job_data['parsed_skills'])
    resume_text,     \* resume_data['parsed_data']['raw_text']
    job_description, \* job_data['description']
    scored,          \* locals of the handler once the scores are computed
    returned,        \* the MatchResults returned to the caller so far
    http_status,     \* status code of the handler's response (0: none yet)
    fit_scores,      \* the two match scores handed to the fit classifiers
    fit_labels,      \* classifier name -> the labels it gave to fit_scores
    job_keywords,    \* the job keyword list handed to the ATS scorer
    ats_scores,      \* the ATS sub-scores and overall score of the analyzer
    keyword_density, \* last result of _evaluate_keyword_density
    external_result, \* the parse result of the external model, as handed over
    rule_based,      \* what the rule-based extractors return for the text
    result,          \* the result dict _merge_with_rules works on and returns
    input_text,      \* the text handed to the parser, as a sequence of atoms
    content_type,    \* the declared type of the uploaded file
    parser_env,      \* what surrounds a parse call: file, AI parser, its reply
    utcnow,          \* datetime.utcnow(), counted in months
    extracted,       \* the value returned by the last parser function applied
    parsed,          \* the outcomes of the parse calls made so far, in order
    resumes,         \* the documents of the collection resumes, by id
    analytics,       \* the documents of the collection analytics, by id
    users,           \* the documents of the collection users, by uid
    calls,           \* the requests and service calls that are running
    response,        \* the last operation of the store and what it returned
    served           \* the number of requests and service calls begun

matchVars == <<resume_skills, job_skills, resume_text, job_description,
               scored, returned, http_status>>
fitVars == <<fit_scores, fit_labels>>
atsVars == <<job_keywords, ats_scores, keyword_density>>
mergeVars == <<external_result, rule_based, result>>
parserVars == <<input_text, content_type, parser_env, utcnow, extracted, parsed>>
storeVars == <<resumes, analytics, users, calls, response, served>>

vars == <<machine, pc, resume_skills, job_skills, resume_text, job_description,
          scored, returned, http_status, fit_scores, fit_labels,
          job_keywords, ats_scores, keyword_density,
          external_result, rule_based, result,
          input_text, content_type, parser_env, utcnow, extracted, parsed,
          resumes, analytics, users, calls, response, served>>

-----------------------------------------------------------------------------
(* Bounds of the model *)

MaxTextLen == 2
MaxResumeTextLen == 1

-----------------------------------------------------------------------------
(* Python floats: IEEE 754 binary64 with round-to-nearest, ties to even.   *)
(* A natural number is the sequence of its limbs in base 2^LimbBits, the   *)
(* lowest first, without a zero at the top; <<>> is 0.                     *)

LimbBits == 14
Base == 2^LimbBits

(* the bits of the mantissa of a double, and the extra bits a quotient is  *)
(* computed to before it is rounded                                        *)
MantBits == 53
GuardBits == 6 * LimbBits

Abs(x) == IF x < 0 THEN -x ELSE x

Pow2 == [k \in 0..LimbBits |-> 2^k]

Limb(a, i) == IF i \in 1..Len(a) THEN a[i] ELSE 0

RECURSIVE BTrim(_)
BTrim(a) ==
    IF Len(a) > 0 /\ a[Len(a)] = 0 THEN BTrim(SubSeq(a, 1, Len(a) - 1)) ELSE a

(* limbs that may lie outside 0..Base-1, brought back by carries *)
RECURSIVE Carried(_, _, _)
Carried(a, i, c) ==
    IF i > Len(a) /\ c = 0 THEN <<>>
    ELSE <<(Limb(a, i) + c) % Base>> \o Carried(a, i + 1, (Limb(a, i) + c) \div Base)

BNorm(a) == BTrim(Carried(a, 1, 0))

BNat(n) == BNorm(<<n>>)

BAdd(a, b) ==
    BNorm([i \in 1..(IF Len(a) > Len(b) THEN Len(a) ELSE Len(b)) |->
              Limb(a, i) + Limb(b, i)])

(* a - b for a >= b *)
BSub(a, b) == BNorm([i \in 1..Len(a) |-> a[i] - Limb(b, i)])

RECURSIVE BLessFrom(_, _, _)
BLessFrom(a, b, i) ==
    IF i = 0 THEN FALSE
    ELSE IF a[i] # b[i] THEN a[i] < b[i]
    ELSE BLessFrom(a, b, i - 1)

BLess(a, b) ==
    IF Len(a) # Len(b) THEN Len(a) < Len(b) ELSE BLessFrom(a, b, Len(a))

RECURSIVE Conv(_, _, _, _)
Conv(a, b, k, i) ==
    IF i > Len(a) THEN 0 ELSE a[i] * Limb(b, k - i + 1) + Conv(a, b, k, i + 1)

(* a * b, a of at most seven limbs *)
BMul(a, b) == BNorm([k \in 1..(Len(a) + Len(b)) |-> Conv(a, b, k, 1)])

(* a * 2^s *)
BShl(a, s) ==
    BNorm([i \in 1..(Len(a) + (s \div LimbBits)) |->
              IF i <= (s \div LimbBits) THEN 0
              ELSE a[i - (s \div LimbBits)] * Pow2[(s % LimbBits)]])

(* a \div 2^s *)
BShr(a, s) ==
    BTrim([i \in 1..(Len(a) - (s \div LimbBits)) |->
              (a[i + (s \div LimbBits)] \div Pow2[(s % LimbBits)])
              + (Limb(a, i + (s \div LimbBits) + 1) % Pow2[(s % LimbBits)])
                * Pow2[LimbBits - (s % LimbBits)]])

(* bit k of a, bit 0 the lowest *)
BBit(a, k) == (Limb(a, (k \div LimbBits) + 1) \div Pow2[(k % LimbBits)]) % 2

(* a % 2^k # 0 *)
BLowNonzero(a, k) ==
    \/ \E i \in 1..Len(a) : i <= (k \div LimbBits) /\ a[i] # 0
    \/ Limb(a, (k \div LimbBits) + 1) % Pow2[(k % LimbBits)] # 0

BitLen(a) ==
    IF a = <<>> THEN 0
    ELSE LimbBits * (Len(a) - 1)
         + (CHOOSE k \in 1..LimbBits : Pow2[k - 1] <= a[Len(a)] /\ a[Len(a)] < Pow2[k])

(* a \div d and a % d for 0 < d <= 2^17 *)
RECURSIVE DivFrom(_, _, _, _)
DivFrom(a, d, i, r) ==
    IF i = 0 THEN <<>>
    ELSE DivFrom(a, d, i - 1, (r * Base + a[i]) % d) \o <<(r * Base + a[i]) \div d>>

BDivSmall(a, d) == BTrim(DivFrom(a, d, Len(a), 0))

RECURSIVE ModFrom(_, _, _, _)
ModFrom(a, d, i, r) ==
    IF i = 0 THEN r ELSE ModFrom(a, d, i - 1, (r * Base + a[i]) % d)

BModSmall(a, d) == ModFrom(a, d, Len(a), 0)

(* A float is (-1)^neg * m * 2^e with 2^52 <= m < 2^53, or 0.0 with no     *)
(* limbs; the values of the program are far from the subnormal range and   *)
(* from infinity, and none of them is -0.0.                                *)
FZero == [neg |-> FALSE, m |-> <<>>, e |-> 0]

(* whether dropping the s lowest bits of n rounds upwards: the dropped     *)
(* part, with anything below it (sticky), is over a half, or is the half   *)
(* and the kept part is odd                                                *)
RoundedUp(n, s, sticky) ==
    BBit(n, s - 1) = 1 /\ (sticky \/ BLowNonzero(n, s - 1) \/ BBit(n, s) = 1)

(* n \div 2^s rounded to nearest, ties to even *)
BRoundShr(n, s, sticky) ==
    BAdd(BShr(n, s), IF RoundedUp(n, s, sticky) THEN <<1>> ELSE <<>>)

FPack(neg, m, e) ==
    IF BitLen(m) > MantBits
    THEN [neg |-> neg, m |-> BShr(m, 1), e |-> e + 1]
    ELSE [neg |-> neg, m |-> m, e |-> e]

FRoundAt(neg, n, e, s, sticky) ==
    IF s <= 0
    THEN [neg |-> neg, m |-> BShl(n, -s), e |-> e + s]
    ELSE FPack(neg, BRoundShr(n, s, sticky), e + s)

(* the float nearest to (-1)^neg * (n + sticky part) * 2^e; a sticky part  *)
(* is given only with an n of more than 54 bits                            *)
FRound(neg, n, e, sticky) ==
    IF n = <<>> THEN FZero ELSE FRoundAt(neg, n, e, BitLen(n) - MantBits, sticky)

(* float(n) *)
FromInt(n) == FRound(n < 0, BNat(Abs(n)), 0, FALSE)

(* the natural n over d as a float, 0 < d <= 2^17 *)
FQuot(neg, n, d) ==
    FRound(neg, BDivSmall(BShl(n, GuardBits), d), -GuardBits,
           BModSmall(BShl(n, GuardBits), d) # 0)

(* n / d for the ints n and d, and the float of the decimal literal n/d *)
FDiv(n, d) == FQuot((n < 0) # (d < 0), BNat(Abs(n)), Abs(d))

FNeg(a) == IF a.m = <<>> THEN a ELSE [a EXCEPT !.neg = ~@]

FAbs(a) == [a EXCEPT !.neg = FALSE]

MagLess(a, b) ==
    IF a.m = <<>> THEN b.m # <<>>
    ELSE IF b.m = <<>> THEN FALSE
    ELSE a.e < b.e \/ (a.e = b.e /\ BLess(a.m, b.m))

FLt(a, b) ==
    IF a.neg # b.neg THEN a.neg
    ELSE IF a.neg THEN MagLess(b, a) ELSE MagLess(a, b)

FLe(a, b) == ~FLt(b, a)

(* min(a, b) and max(a, b) *)
FMin(a, b) == IF FLt(b, a) THEN b ELSE a

FMax(a, b) == IF FLt(a, b) THEN b ELSE a

FMul(a, b) == FRound(a.neg # b.neg, BMul(a.m, b.m), a.e + b.e, FALSE)

SignedSum(negA, a, negB, b, e) ==
    IF negA = negB THEN FRound(negA, BAdd(a, b), e, FALSE)
    ELSE IF BLess(a, b) THEN FRound(negB, BSub(b, a), e, FALSE)
    ELSE FRound(negA, BSub(a, b), e, FALSE)

(* hi + lo for hi.e >= lo.e, both not zero: beyond 60 binary places lo is  *)
(* less than a quarter of the last place of hi                             *)
AddAligned(hi, lo) ==
    IF hi.e - lo.e > 60 THEN hi
    ELSE SignedSum(hi.neg, BShl(hi.m, hi.e - lo.e), lo.neg, lo.m, lo.e)

FAdd(a, b) ==
    IF a.m = <<>> THEN b
    ELSE IF b.m = <<>> THEN a
    ELSE IF a.e >= b.e THEN AddAligned(a, b) ELSE AddAligned(b, a)

FSub(a, b) == FAdd(a, FNeg(b))

(* the integer nearest to 10 * |x|, a tie going to the even one *)
Tenths(n, e) == IF e >= 0 THEN BShl(n, e) ELSE BRoundShr(n, -e, FALSE)

(* round(x, 1): the decimal with one place nearest to the value of the     *)
(* float, and of it the nearest float                                      *)
Round1(x) == FQuot(x.neg, Tenths(BMul(x.m, <<10>>), x.e), 10)

-----------------------------------------------------------------------------
(* Texts *)

(* the lower-case form of every word and letter of the model's texts that   *)
(* has an upper-case character                                               *)
LowerCase ==
    [A |-> "a", AB |-> "ab", AK |-> "ak", AL |-> "al", APIs |-> "apis",
     AR |-> "ar", AZ |-> "az", Acme |-> "acme", Apr |-> "apr", Aug |-> "aug",
     Austin |-> "austin", Awards |-> "awards", B |-> "b", BC |-> "bc",
     BSc |-> "bsc", Bachelor |-> "bachelor", Boston |-> "boston",
     Built |-> "built", C |-> "c", CA |-> "ca", CO |-> "co", CT |-> "ct",
     Class |-> "class", College |-> "college", Current |-> "current",
     D |-> "d", DC |-> "dc", DE |-> "de", Dec |-> "dec",
     Diploma |-> "diploma", Doe |-> "doe", E |-> "e",
     Engineer |-> "engineer", Experience |-> "experience", F |-> "f",
     FL |-> "fl", Feb |-> "feb", G |-> "g", GA |-> "ga", H |-> "h",
     HI |-> "hi", HR |-> "hr", I |-> "i", IA |-> "ia", ID |-> "id",
     IL |-> "il", IT |-> "it", Inc |-> "inc",
     Institute |-> "institute", J |-> "j", Jan |-> "jan", Jane |-> "jane",
     January |-> "january", Jul |-> "jul", Jun |-> "jun", K |-> "k",
     KS |-> "ks", KY |-> "ky", L |-> "l", LA |-> "la",
     LangChain |-> "langchain", Languages |-> "languages", M |-> "m", MA |-> "ma", MB |-> "mb",
     MD |-> "md", ME |-> "me", MI |-> "mi", MIT |-> "mit", MN |-> "mn",
     MO |-> "mo", MS |-> "ms", MT |-> "mt", Mar |-> "mar", March |-> "march",
     Master |-> "master", Masters |-> "masters", May |-> "may", N |-> "n",
     NB |-> "nb", NC |-> "nc", ND |-> "nd", NE |-> "ne", NH |-> "nh",
     NJ |-> "nj", NL |-> "nl", NM |-> "nm", NS |-> "ns", NT |-> "nt",
     NU |-> "nu", NV |-> "nv", NY |-> "ny", No |-> "no", Nov |-> "nov", Now |-> "now",
     O |-> "o", OH |-> "oh", OK |-> "ok", ON |-> "on", OR |-> "or",
     Oct |-> "oct", Other |-> "other", P |-> "p", PA |-> "pa", PE |-> "pe",
     PhD |-> "phd", Physics |-> "physics", Present |-> "present",
     Python |-> "python", Q |-> "q", QC |-> "qc", R |-> "r", RI |-> "ri",
     Remote |-> "remote", Resume |-> "resume", S |-> "s", SC |-> "sc", SD |-> "sd", SK |-> "sk",
     SKILLS |-> "skills", School |-> "school", Science |-> "science",
     Sep |-> "sep", Sept |-> "sept", Skilled |-> "skilled", Knowledge |-> "knowledge", Skills |-> "skills", Soft |-> "soft",
     Software |-> "software", State |-> "state", Summary |-> "summary",
     Summer |-> "summer", T |-> "t", TN |-> "tn", TX |-> "tx",
     Team |-> "team", Technical |-> "technical", Tools |-> "tools",
     Toronto |-> "toronto", U |-> "u", UT |-> "ut",
     University |-> "university", V |-> "v", VA |-> "va", VT |-> "vt",
     W |-> "w", WA |-> "wa", WI |-> "wi", WV |-> "wv", Work |-> "work",
     X |-> "x", XX |-> "xx", Y |-> "y", YT |-> "yt", Z |-> "z"]
    @@ ("IN" :> "in")
    @@ ("B.Sc" :> "b.sc")
    @@ ("M.Sc" :> "m.sc")
    @@ ("(AI" :> "(ai")
    @@ ("OpenAI)" :> "openai)")

(* str.lower() on one token; a token without upper-case characters is left  *)
(* as it is                                                                  *)
Lower(tok) == IF tok \in DOMAIN LowerCase THEN LowerCase[tok] ELSE tok

(* set(text.lower().split()): the distinct lower-cased words; split() drops *)
(* the empty pieces between consecutive spaces                               *)
WordSet(text) == {Lower(text[i]) : i \in 1..Len(text)} \ {""}

(* text.lower().split(): the words in order *)
WordList(text) ==
    SelectSeq([i \in 1..Len(text) |-> Lower(text[i])], LAMBDA w : w # "")

TextsUpTo(vocab, n) == UNION {[1..k -> vocab] : k \in 0..n}

(* the orders list(S) can come out in *)
ListsOf(S) ==
    {s \in [1..Cardinality(S) -> S] : \A i, j \in DOMAIN s : i # j => s[i] # s[j]}

-----------------------------------------------------------------------------
(* Match scoring: backend/app/api/analytics_new.py (the same code is in      *)
(* backend/app/api/analysis.py)                                              *)

SkillWeight == 70
TextWeight == 30
MaxScore == 100

(* the overlap is divided by the number of resume skills *)
Mut_skill_match_per_resume(rs, js) ==
    IF rs = {} THEN FromInt(0)
    ELSE FMul(FDiv(Cardinality(rs \cap js), Cardinality(rs)), FromInt(SkillWeight))

skill_match(rs, js) ==
    FMul(FDiv(Cardinality(rs \cap js), Cardinality(js)), FromInt(SkillWeight))

text_match(rt, jd) ==
    LET resume_words == WordSet(rt)
        job_words == WordSet(jd)
    IN  IF job_words # {}
        THEN FMul(FDiv(Cardinality(resume_words \cap job_words),
                      Cardinality(job_words)), FromInt(TextWeight))
        ELSE FromInt(0)

(* the guard on empty job_skills gives up only the skill part *)
Mut_calculate_match_score_text_only(rs, js, rt, jd) ==
    IF js = {}
    THEN text_match(rt, jd)
    ELSE FMin(FAdd(skill_match(rs, js), text_match(rt, jd)), FromInt(MaxScore))

(* the text part is weighed against the resume's words, not the job's *)
Mut_calculate_match_score_resume_words(rs, js, rt, jd) ==
    IF js = {}
    THEN FromInt(0)
    ELSE FMin(FAdd(skill_match(rs, js), text_match(jd, rt)), FromInt(MaxScore))

_calculate_match_score(rs, js, rt, jd) ==
    IF js = {}
    THEN FromInt(0)
    ELSE FMin(FAdd(skill_match(rs, js), text_match(rt, jd)), FromInt(MaxScore))

(* analytics_new._calculate_ats_score: share of the distinct job words that *)
(* occur among the resume words                                              *)
_calculate_ats_score(rt, jd) ==
    LET job_word_list == WordList(jd)
        resume_word_list == WordList(rt)
        distinct == {job_word_list[i] : i \in 1..Len(job_word_list)}
        present == {resume_word_list[i] : i \in 1..Len(resume_word_list)}
        total_keywords == Cardinality(distinct)
        keyword_matches == Cardinality(distinct \cap present)
    IN  IF Len(job_word_list) = 0
        THEN FromInt(0)
        ELSE FMin(IF total_keywords > 0
                  THEN FMul(FDiv(keyword_matches, total_keywords), FromInt(100))
                  ELSE FromInt(0),
                  FromInt(MaxScore))

GreatFitMin == 80
PossibleFitMin == 60
MarginalFitMin == 40

_determine_fit_level(match_score) ==
    IF FLe(FromInt(GreatFitMin), match_score) THEN "Great Fit"
    ELSE IF FLe(FromInt(PossibleFitMin), match_score) THEN "Possible Fit"
    ELSE "Not Fit"

(* missing_skills[:n] *)
Take(s, n) == SubSeq(s, 1, IF Len(s) < n THEN Len(s) ELSE n)

SuggestTopSkills == 5
TailorBelow == 60
RetargetBelow == 40

(* a variant whose tailoring items also come at a score of exactly 60 *)
Mut_generate_suggestions_at_sixty(missing_skills, match_score) ==
    (IF Len(missing_skills) > 0
     THEN <<[text |-> "Add these skills to your resume",
             skills |-> Take(missing_skills, SuggestTopSkills)]>>
     ELSE <<>>)
    \o
    (IF FLe(match_score, FromInt(TailorBelow))
     THEN <<[text |-> "Consider tailoring your resume to better match the job requirements",
             skills |-> <<>>],
            [text |-> "Highlight relevant experience and achievements",
             skills |-> <<>>]>>
     ELSE <<>>)
    \o
    (IF FLt(match_score, FromInt(RetargetBelow))
     THEN <<[text |-> "This position may not be the best fit for your current skillset",
             skills |-> <<>>],
            [text |-> "Consider applying to roles that better match your experience",
             skills |-> <<>>]>>
     ELSE <<>>)

_generate_suggestions(missing_skills, match_score) ==
    (IF Len(missing_skills) > 0
     THEN <<[text |-> "Add these skills to your resume",
             skills |-> Take(missing_skills, SuggestTopSkills)]>>
     ELSE <<>>)
    \o
    (IF FLt(match_score, FromInt(TailorBelow))
     THEN <<[text |-> "Consider tailoring your resume to better match the job requirements",
             skills |-> <<>>],
            [text |-> "Highlight relevant experience and achievements",
             skills |-> <<>>]>>
     ELSE <<>>)
    \o
    (IF FLt(match_score, FromInt(RetargetBelow))
     THEN <<[text |-> "This position may not be the best fit for your current skillset",
             skills |-> <<>>],
            [text |-> "Consider applying to roles that better match your experience",
             skills |-> <<>>]>>
     ELSE <<>>)

ImproveTopSkills == 3
QuantifyBelow == 70

_generate_improvements(missing_skills, match_score) ==
    [i \in 1..Len(Take(missing_skills, ImproveTopSkills)) |->
        [text |-> "Gain experience with ... through online courses or projects",
         skills |-> <<missing_skills[i]>>]]
    \o
    (IF FLt(match_score, FromInt(QuantifyBelow))
     THEN <<[text |-> "Quantify your achievements with specific metrics",
             skills |-> <<>>],
            [text |-> "Use industry-specific keywords from the job description",
             skills |-> <<>>]>>
     ELSE <<>>)

(* The AnalysisResults built by _perform_basic_analysis, for one order of   *)
(* list(resume_skills & job_skills) and of list(job_skills - resume_skills) *)
AnalysisResults(rs, js, rt, jd, matching_skills, missing_skills) ==
    LET match_score == _calculate_match_score(rs, js, rt, jd)
        ats_score == _calculate_ats_score(rt, jd)
    IN  [match_score |-> Round1(match_score),
         ats_score |-> Round1(ats_score),
         fit_level |-> _determine_fit_level(match_score),
         matching_skills |-> matching_skills,
         missing_skills |-> missing_skills,
         suggestions |-> _generate_suggestions(missing_skills, match_score),
         improvements |-> _generate_improvements(missing_skills, match_score),
         total_skills_matched |-> Len(matching_skills),
         total_skills_missing |-> Len(missing_skills),
         skill_match_percentage |->
            IF js # {}
            THEN Round1(FMul(FDiv(Len(matching_skills), Cardinality(js)), FromInt(100)))
            ELSE FromInt(0)]

(* missing_skills computed with the operands of the difference swapped *)
Mut_perform_basic_analysis_swapped(rs, js, rt, jd) ==
    {AnalysisResults(rs, js, rt, jd, matching_skills, missing_skills) :
        matching_skills \in ListsOf(rs \cap js),
        missing_skills \in ListsOf(rs \ js)}

_perform_basic_analysis(rs, js, rt, jd) ==
    {AnalysisResults(rs, js, rt, jd, matching_skills, missing_skills) :
        matching_skills \in ListsOf(rs \cap js),
        missing_skills \in ListsOf(js \ rs)}

-----------------------------------------------------------------------------
(* Match scoring of backend/app/api/job.py: the same weights, with the      *)
(* common words removed from both word sets                                  *)

common_words == {"the", "and", "or", "in", "on", "at", "to", "for", "of", "with", "by"}

job_py_calculate_match_score(rs, js, rt, jd) ==
    IF js = {}
    THEN FromInt(0)
    ELSE LET skills_match == FMul(FDiv(Cardinality(rs \cap js), Cardinality(js)), FromInt(100))
             resume_words == WordSet(rt) \ common_words
             job_words == WordSet(jd) \ common_words
             text_similarity ==
                IF job_words # {}
                THEN FMul(FDiv(Cardinality(resume_words \cap job_words),
                              Cardinality(job_words)), FromInt(100))
                ELSE FromInt(0)
             match_score == FAdd(FMul(skills_match, FDiv(SkillWeight, 100)),
                                 FMul(text_similarity, FDiv(TextWeight, 100)))
         IN  FMin(match_score, FromInt(MaxScore))

(* job.py counts every job word, repeated ones included *)
job_py_calculate_ats_score(rt, jd) ==
    LET resume_words == WordList(rt)
        job_words == WordList(jd)
        present == {resume_words[i] : i \in 1..Len(resume_words)}
        total_keywords == Len(job_words)
        keyword_matches == Cardinality({i \in 1..Len(job_words) : job_words[i] \in present})
    IN  FMin(IF total_keywords > 0
             THEN FMul(FDiv(keyword_matches, total_keywords), FromInt(100))
             ELSE FromInt(0),
             FromInt(MaxScore))

-----------------------------------------------------------------------------
(* The match handlers *)

SkillUniverse == {"python", "sql", "aws"}
MatchVocab == {"Python", "python", "the", ""}

(* "not text": the string is empty *)
StrIsEmpty(text) == Len(text) = 0 \/ (Len(text) = 1 /\ text[1] = "")

NoScores == [match_score |-> FromInt(0), ats_score |-> FromInt(0), fit_level |-> ""]

MatchIdle ==
    /\ resume_skills = {}
    /\ job_skills = {}
    /\ resume_text = <<>>
    /\ job_description = <<>>
    /\ scored = NoScores
    /\ returned = {}
    /\ http_status = 0

FitIdle ==
    /\ fit_scores = <<FromInt(0), FromInt(0)>>
    /\ fit_labels = [c \in {} |-> <<>>]

NoAtsScores ==
    [keyword_density |-> FromInt(0), formatting |-> FromInt(0), structure |-> FromInt(0),
     clarity |-> FromInt(0), ats_score |-> FromInt(0)]

AtsIdle ==
    /\ job_keywords = <<>>
    /\ ats_scores = NoAtsScores
    /\ keyword_density = FromInt(0)

NoResult == [f \in {} |-> <<>>]

MergeIdle ==
    /\ external_result = NoResult
    /\ rule_based = NoResult
    /\ result = NoResult

ParserIdle ==
    /\ input_text = <<>>
    /\ content_type = ""
    /\ parser_env = NoResult
    /\ utcnow = 0
    /\ extracted = <<>>
    /\ parsed = <<>>

StoreIdle ==
    /\ resumes = <<>>
    /\ analytics = <<>>
    /\ users = <<>>
    /\ calls = {}
    /\ response = NoResult
    /\ served = 0

-----------------------------------------------------------------------------
(* The document store: backend/app/services/firebase_simple.py.  A         *)
(* collection is the sequence of its documents; the id of a document is    *)
(* its position, given at creation and never reused; a deleted document    *)
(* leaves Null at its position.                                            *)

(* the documents a collection gets, the calls in flight at a time, and the *)
(* requests and service calls a behaviour of the store machine begins      *)
MaxResumes == 2
MaxAnalytics == 1
MaxRunning == 2
MaxRequests == 5

Users == {"A", "B"}

(* Python's None where a document or a dict is expected *)
Null == [f \in {} |-> <<>>]

(* doc.exists *)
Exists(docs, id) == id \in 1..Len(docs) /\ docs[id] # Null

(* doc.exists and doc.to_dict().get('user_id') == user_id *)
Owns(docs, id, user_id) == Exists(docs, id) /\ docs[id].user_id = user_id

(* ref.update(update_data): the fields of update_data replace those of the *)
(* document                                                                *)
Updated(docs, id, update_data) == [docs EXCEPT ![id] = update_data @@ @]

(* ref.delete() *)
Deleted(docs, id) == [docs EXCEPT ![id] = Null]

(* SimplifiedFirebaseService.update_analytics: the collection afterwards;  *)
(* the call returns Owns(analytics, analytics_id, user_id)                 *)
update_analytics(analytics_id, user_id, update_data) ==
    IF Owns(analytics, analytics_id, user_id)
    THEN Updated(analytics, analytics_id, update_data) ELSE analytics

(* SimplifiedFirebaseService.get_analytics *)
get_analytics(analytics_id, user_id) ==
    IF Owns(analytics, analytics_id, user_id) THEN analytics[analytics_id] ELSE Null

(* SimplifiedFirebaseService.update_resume: the collection afterwards; the *)
(* call returns Owns(resumes, resume_id, user_id)                          *)
update_resume(resume_id, user_id, update_data) ==
    IF Owns(resumes, resume_id, user_id)
    THEN Updated(resumes, resume_id, update_data) ELSE resumes

(* SimplifiedFirebaseService.get_resume *)
get_resume(resume_id, user_id) ==
    IF Owns(resumes, resume_id, user_id) THEN resumes[resume_id] ELSE Null

(* SimplifiedFirebaseService.get_document(collection, id): no owner is     *)
(* asked for                                                               *)
get_document(docs, id) == IF Exists(docs, id) THEN docs[id] ELSE Null

(* ResumeData(...).dict(): the copy of a resume an analytics document      *)
(* holds.  Of parsed_data the model keeps raw_text and skills, the latter  *)
(* as set(parsed_data['skills'])                                           *)
ResumeData(resume_id, resume_data) ==
    [resume_id |-> resume_id, type |-> resume_data.type,
     parsed_data |-> resume_data.parsed_data]

(* the user an operation was made for and what it answered: the status of  *)
(* the handler's response or, for a method of the service called on its    *)
(* own, 1 for True and 0 for False                                         *)
Responded(user_id, status) ==
    response' = [user_id |-> user_id, status |-> status]

(* analytics_new.perform_analysis, lines 502-529: the status of the error  *)
(* it raises for the document it has read, 0 when it raises none           *)
PerformAnalysisError(analytics_data) ==
    IF analytics_data = Null THEN 404
    ELSE IF analytics_data.resume = Null THEN 400
    ELSE IF \/ StrIsEmpty(analytics_data.job_description.description)
            \/ StrIsEmpty(analytics_data.resume.parsed_data.raw_text)
    THEN 400
    ELSE 0

(* results_data (lines 567-570) *)
ResultsData(results_dict) ==
    [enhanced_analysis |-> results_dict, basic_results |-> results_dict]

(* perform_analysis from the read of the document to the analysis (lines   *)
(* 497-533): it answers with an error, or goes on with the results of      *)
(* _perform_basic_analysis for the document it has read                    *)
PerformAnalysisRead(user_id, analytics_id) ==
    LET analytics_data == get_analytics(analytics_id, user_id)
    IN  IF PerformAnalysisError(analytics_data) # 0
        THEN /\ Responded(user_id, PerformAnalysisError(analytics_data))
             /\ UNCHANGED calls
        ELSE /\ \E analysis_results \in _perform_basic_analysis(
                        analytics_data.resume.parsed_data.skills,
                        analytics_data.job_description.parsed_skills,
                        analytics_data.resume.parsed_data.raw_text,
                        analytics_data.job_description.description) :
                    calls' = calls \cup
                        {[op |-> "perform_analysis", user_id |-> user_id,
                          analytics_id |-> analytics_id,
                          analysis_results |-> analysis_results]}
             /\ UNCHANGED response

(* perform_analysis from the update of the document to the response (lines *)
(* 573-626): the update fails when the document is no longer there         *)
PerformAnalysisUpdate(call) ==
    /\ analytics' = update_analytics(call.analytics_id, call.user_id,
                        [results |-> ResultsData(call.analysis_results),
                         status |-> "completed", step_number |-> 3])
    /\ Responded(call.user_id,
           IF Owns(analytics, call.analytics_id, call.user_id) THEN 200 ELSE 500)
    /\ calls' = calls \ {call}

(* SimplifiedFirebaseService.delete_analytics, called by a client of the   *)
(* service, up to the read of the document (lines 156-162): the call       *)
(* returns False at once when the document is not one of the user.  A      *)
(* request of the match machine meets the call only while it runs          *)
delete_analytics_get ==
    /\ machine \in {"store", "match"}
    /\ machine = "store" => served < MaxRequests
    /\ served' = IF machine = "store" THEN served + 1 ELSE served
    /\ machine = "match" => pc = "perform_analysis_running"
    /\ Cardinality(calls) < MaxRunning
    /\ \E user_id \in Users, analytics_id \in 1..Len(analytics) :
          IF Owns(analytics, analytics_id, user_id)
          THEN /\ calls' = calls \cup
                      {[op |-> "delete_analytics", user_id |-> user_id,
                        analytics_id |-> analytics_id]}
               /\ UNCHANGED response
          ELSE /\ Responded(user_id, 0)
               /\ UNCHANGED calls
    /\ UNCHANGED <<machine, pc, resumes, analytics, users>>
    /\ UNCHANGED <<matchVars, fitVars, atsVars, mergeVars, parserVars>>

(* delete_analytics from the deletion to the return (lines 163-164):       *)
(* deleting a document that is gone raises nothing, the call returns True  *)
delete_analytics ==
    /\ machine \in {"store", "match"}
    /\ UNCHANGED served
    /\ \E call \in calls :
          /\ call.op = "delete_analytics"
          /\ analytics' = IF Exists(analytics, call.analytics_id)
                          THEN Deleted(analytics, call.analytics_id) ELSE analytics
          /\ Responded(call.user_id, 1)
          /\ calls' = calls \ {call}
    /\ UNCHANGED <<machine, pc, resumes, users>>
    /\ UNCHANGED <<matchVars, fitVars, atsVars, mergeVars, parserVars>>

(* the analytics document the store holds for the inputs: the job of user  *)
(* A, with the resume when one was attached.  create_analytics wrote       *)
(* step_number 1 and attaching a resume updates resume and status only     *)
StoredResume(rs, rt) ==
    [user_id |-> "A", is_default |-> FALSE, type |-> "uploaded",
     parsed_data |-> [raw_text |-> rt, skills |-> rs]]

StoredAnalytics(attached, rs, js, rt, jd) ==
    [user_id |-> "A",
     job_description |-> [description |-> jd, parsed_skills |-> js],
     resume |-> IF attached THEN ResumeData(1, StoredResume(rs, rt)) ELSE Null,
     results |-> Null,
     status |-> IF attached THEN "resume_added" ELSE "in_process",
     step_number |-> 1]

MatchInit ==
    /\ machine = "match"
    /\ pc = "start"
    /\ resume_skills \in SUBSET SkillUniverse
    /\ job_skills \in SUBSET SkillUniverse
    /\ resume_text \in TextsUpTo(MatchVocab, MaxResumeTextLen)
    /\ job_description \in TextsUpTo(MatchVocab, MaxTextLen)
    /\ scored = NoScores
    /\ returned = {}
    /\ http_status = 0
    /\ \E attached \in BOOLEAN :
          /\ ~attached => (resume_skills = {} /\ resume_text = <<>>)
          /\ resumes = IF attached THEN <<StoredResume(resume_skills, resume_text)>>
                       ELSE <<>>
          /\ analytics = <<StoredAnalytics(attached, resume_skills, job_skills,
                                           resume_text, job_description)>>
    /\ users = <<>>
    /\ calls = {}
    /\ response = NoResult
    /\ served = 0
    /\ FitIdle /\ AtsIdle /\ MergeIdle /\ ParserIdle

(* the values _perform_basic_analysis hands to the result, before rounding *)
BasicScores(rs, js, rt, jd) ==
    [match_score |-> _calculate_match_score(rs, js, rt, jd),
     ats_score |-> _calculate_ats_score(rt, jd),
     fit_level |-> _determine_fit_level(_calculate_match_score(rs, js, rt, jd))]

(* POST /analytics/perform-analysis, up to the analysis (lines 490-533):   *)
(* the answer is an error, or the request goes on with its results         *)
perform_analysis ==
    /\ machine \in {"match", "store"}
    /\ machine = "store" => served < MaxRequests
    /\ served' = IF machine = "store" THEN served + 1 ELSE served
    /\ machine = "match" => pc = "start"
    /\ Cardinality(calls) < MaxRunning
    /\ \E user_id \in Users, analytics_id \in 1..MaxAnalytics :
          PerformAnalysisRead(user_id, analytics_id)
    /\ IF machine = "match"
       THEN /\ pc' = IF calls' = calls THEN "perform_analysis_done"
                     ELSE "perform_analysis_running"
            /\ http_status' = IF calls' = calls THEN response'.status ELSE http_status
            /\ scored' = IF calls' = calls THEN scored
                         ELSE BasicScores(resume_skills, job_skills,
                                          resume_text, job_description)
       ELSE UNCHANGED <<pc, http_status, scored>>
    /\ UNCHANGED <<machine, resumes, analytics, users>>
    /\ UNCHANGED <<resume_skills, job_skills, resume_text, job_description, returned>>
    /\ UNCHANGED <<fitVars, atsVars, mergeVars, parserVars>>

(* POST /analytics/perform-analysis, from the update of the document to    *)
(* the response (lines 566-631)                                            *)
perform_analysis_update ==
    /\ machine \in {"match", "store"}
    /\ UNCHANGED served
    /\ \E call \in calls :
          /\ call.op = "perform_analysis"
          /\ PerformAnalysisUpdate(call)
          /\ IF machine = "match"
             THEN /\ pc' = "perform_analysis_done"
                  /\ http_status' = response'.status
                  /\ returned' = IF response'.status = 200
                                 THEN returned \cup {call.analysis_results}
                                 ELSE returned
             ELSE UNCHANGED <<pc, http_status, returned>>
    /\ UNCHANGED <<machine, resumes, users>>
    /\ UNCHANGED <<resume_skills, job_skills, resume_text, job_description, scored>>
    /\ UNCHANGED <<fitVars, atsVars, mergeVars, parserVars>>

(* _perform_basic_analysis called on its own, on any job and resume data *)
call_perform_basic_analysis ==
    /\ machine = "match" /\ pc = "start"
    /\ pc' = "basic_analysis_done"
    /\ \E results \in _perform_basic_analysis(resume_skills, job_skills,
                                              resume_text, job_description) :
          returned' = returned \cup {results}
    /\ scored' = BasicScores(resume_skills, job_skills, resume_text, job_description)
    /\ UNCHANGED <<machine, resume_skills, job_skills, resume_text, job_description,
                   http_status>>
    /\ UNCHANGED <<fitVars, atsVars, mergeVars, parserVars, storeVars>>

(* analysis.perform_analysis_match: the name analysis_doc (line 263) is     *)
(* bound nowhere, so the handler leaves through its except clause before    *)
(* any score is computed                                                     *)
perform_analysis_match ==
    /\ machine = "match" /\ pc = "start"
    /\ pc' = "perform_analysis_match_done"
    /\ \E resume_doc_exists \in BOOLEAN :
          http_status' = IF resume_doc_exists THEN 500 ELSE 404
    /\ UNCHANGED <<machine, resume_skills, job_skills, resume_text, job_description,
                   scored, returned>>
    /\ UNCHANGED <<fitVars, atsVars, mergeVars, parserVars, storeVars>>

(* job.match_resume_job: without the resume document, or without the job   *)
(* document, of the user it answers 404; with both the scores are          *)
(* computed, then the call of _generate_suggestions (defined with a stray  *)
(* self parameter, line 216) raises TypeError                              *)
match_resume_job ==
    /\ machine = "match" /\ pc = "start"
    /\ pc' = "match_resume_job_done"
    /\ \E resume_doc_exists, job_doc_exists \in BOOLEAN :
          IF resume_doc_exists /\ job_doc_exists
          THEN /\ scored' =
                     [match_score |-> job_py_calculate_match_score(
                          resume_skills, job_skills, resume_text, job_description),
                      ats_score |-> job_py_calculate_ats_score(resume_text,
                                                               job_description),
                      fit_level |-> _determine_fit_level(
                          job_py_calculate_match_score(
                              resume_skills, job_skills, resume_text, job_description))]
               /\ http_status' = 500
          ELSE /\ http_status' = 404
               /\ UNCHANGED scored
    /\ UNCHANGED <<machine, resume_skills, job_skills, resume_text, job_description,
                   returned>>
    /\ UNCHANGED <<fitVars, atsVars, mergeVars, parserVars, storeVars>>

MatchNext ==
    \/ perform_analysis
    \/ perform_analysis_update
    \/ delete_analytics_get
    \/ delete_analytics
    \/ call_perform_basic_analysis
    \/ perform_analysis_match
    \/ match_resume_job

MatchSpec == MatchInit /\ [][MatchNext]_vars

SeqToSet(s) == {s[i] : i \in 1..Len(s)}

(* the scores of this behaviour have been computed *)
Scored ==
    /\ pc \in {"perform_analysis_running", "perform_analysis_done", "basic_analysis_done"}
    /\ scored # NoScores

(* C1: every MatchResult a match operation returns lists as matching_skills *)
(* exactly job_skills \cap resume_skills and as missing_skills exactly       *)
(* job_skills \ resume_skills, each skill once; the two lists are disjoint   *)
(* and together make up job_skills.                                          *)
C1_SkillPartition ==
    \A r \in returned :
        /\ SeqToSet(r.matching_skills) = job_skills \cap resume_skills
        /\ SeqToSet(r.missing_skills) = job_skills \ resume_skills
        /\ SeqToSet(r.missing_skills) \cap SeqToSet(r.matching_skills) = {}
        /\ SeqToSet(r.missing_skills) \cup SeqToSet(r.matching_skills) = job_skills
        /\ Len(r.matching_skills) = Cardinality(job_skills \cap resume_skills)
        /\ Len(r.missing_skills) = Cardinality(job_skills \ resume_skills)
        /\ r.total_skills_matched = Len(r.matching_skills)
        /\ r.total_skills_missing = Len(r.missing_skills)

C1_Witness ==
    /\ pc = "perform_analysis_done" /\ http_status = 200
    /\ resume_skills = {"python", "sql"} /\ job_skills = {"python", "sql", "aws"}
    /\ \E r \in returned : Len(r.matching_skills) = 2 /\ r.missing_skills = <<"aws">>
    /\ analytics[1].results.basic_results \in returned

(* C2: with no job skills the result has match_score 0, skill match          *)
(* percentage 0 and fit level "Not Fit", whatever the resume and the texts,  *)
(* and no error is raised on the way: the handler answers 200 with the       *)
(* result, unless the document or a text is missing (404, 400) or the        *)
(* document is gone when the results are saved (500).                        *)
C2_EmptyJobSkills ==
    (job_skills = {} /\ pc \in {"perform_analysis_done", "basic_analysis_done"}) =>
        /\ (pc = "perform_analysis_done" =>
               /\ http_status \in {200, 400, 404, 500}
               /\ (http_status = 500 => ~Exists(analytics, 1))
               /\ (http_status = 400 =>
                      PerformAnalysisError(get_analytics(1, "A")) = 400)
               /\ (http_status = 200 => returned # {}))
        /\ (pc = "basic_analysis_done" => returned # {})
        /\ \A r \in returned :
              /\ r.match_score = FromInt(0)
              /\ r.skill_match_percentage = FromInt(0)
              /\ r.fit_level = "Not Fit"
              /\ r.matching_skills = <<>> /\ r.missing_skills = <<>>

C2_Witness ==
    /\ job_skills = {} /\ resume_skills # {}
    /\ pc = "perform_analysis_done" /\ http_status = 200
    /\ WordSet(resume_text) \cap WordSet(job_description) # {}
    /\ returned # {}

(* C3 as stated: for all inputs the match score is                        *)
(* min(100, skill_component + text_component), the skill component being 0  *)
(* when job_skills is empty.                                                *)
C3_Original ==
    Scored =>
        LET m == Cardinality(resume_skills \cap job_skills)
            J == Cardinality(job_skills)
            t == Cardinality(WordSet(resume_text) \cap WordSet(job_description))
            W == Cardinality(WordSet(job_description))
            skill_component == IF J = 0 THEN FromInt(0)
                               ELSE FMul(FDiv(m, J), FromInt(70))
            text_component == IF W = 0 THEN FromInt(0)
                              ELSE FMul(FDiv(t, W), FromInt(30))
        IN  scored.match_score = FMin(FromInt(100), FAdd(skill_component, text_component))

(* C3 amended: with job_skills non-empty the score is                        *)
(* min(100, |rs n js|/|js| x 70 + |rw n jw|/|jw| x 30) (text part 0 when the *)
(* job has no words), evaluated in floats in this order; with job_skills     *)
(* empty it is 0 whatever the texts.  In job.py the common words are taken   *)
(* out of both word sets and the two shares are scaled to 100 before they    *)
(* are weighed: min(100, (|rs n js|/|js| x 100) x 0.7 +                      *)
(* (|rw n jw|/|jw| x 100) x 0.3).                                            *)
C3_MatchScoreFormula ==
    LET m == Cardinality(resume_skills \cap job_skills)
        J == Cardinality(job_skills)
        Expected(rw, jw) ==
            IF J = 0 THEN FromInt(0)
            ELSE FMin(FromInt(100),
                      FAdd(FMul(FDiv(m, J), FromInt(70)),
                           IF jw = {} THEN FromInt(0)
                           ELSE FMul(FDiv(Cardinality(rw \cap jw), Cardinality(jw)),
                                     FromInt(30))))
        ExpectedJob(rw, jw) ==
            IF J = 0 THEN FromInt(0)
            ELSE FMin(FromInt(100),
                      FAdd(FMul(FMul(FDiv(m, J), FromInt(100)), FDiv(7, 10)),
                           FMul(IF jw = {} THEN FromInt(0)
                                ELSE FMul(FDiv(Cardinality(rw \cap jw), Cardinality(jw)),
                                          FromInt(100)),
                                FDiv(3, 10))))
    IN  /\ (Scored =>
               scored.match_score = Expected(WordSet(resume_text), WordSet(job_description)))
        /\ (pc = "match_resume_job_done" /\ http_status = 500 =>
               scored.match_score = ExpectedJob(WordSet(resume_text) \ common_words,
                                                WordSet(job_description) \ common_words))

C3_Witness ==
    /\ pc = "perform_analysis_done" /\ http_status = 200
    /\ Cardinality(job_skills) = 3 /\ Cardinality(resume_skills \cap job_skills) = 2
    /\ Cardinality(WordSet(job_description)) = 2
    /\ Cardinality(WordSet(resume_text) \cap WordSet(job_description)) = 1
    /\ scored.match_score = FDiv(185, 3)

(* C4: when resume_skills contains every job skill (job_skills non-empty),  *)
(* the skill component is exactly 70 and the match score stays the same     *)
(* when further skills outside job_skills are added to resume_skills.       *)
C4_SupersetSkills ==
    (Scored /\ job_skills # {} /\ job_skills \subseteq resume_skills) =>
        /\ skill_match(resume_skills, job_skills) = FromInt(70)
        /\ scored.match_score =
              FMin(FAdd(FromInt(70), text_match(resume_text, job_description)),
                   FromInt(100))
        /\ \A extra \in SUBSET ((SkillUniverse \cup {"docker"}) \ job_skills) :
              _calculate_match_score(resume_skills \cup extra, job_skills,
                                     resume_text, job_description) = scored.match_score

C4_Witness ==
    /\ pc = "perform_analysis_done" /\ http_status = 200
    /\ Cardinality(job_skills) = 2 /\ job_skills \subseteq resume_skills
    /\ resume_skills # job_skills
    /\ scored.match_score = FromInt(85)

-----------------------------------------------------------------------------
(* The fit classifiers: _determine_fit_level of analytics_new.py (the same   *)
(* code is in analysis.py and job.py) and the method of the same name of     *)
(* EnhancedResumeAnalyzer                                                    *)

ScoreGrain == 2

(* the match scores handed to the classifiers: 0, 1/ScoreGrain, ..., 100 *)
FitScores == {FDiv(k, ScoreGrain) : k \in 0..(MaxScore * ScoreGrain)}

(* the last comparison reads <= instead of >= *)
Mut_enhanced_determine_fit_level_flipped(match_score) ==
    IF FLe(FromInt(GreatFitMin), match_score) THEN "Great Fit"
    ELSE IF FLe(FromInt(PossibleFitMin), match_score) THEN "Possible Fit"
    ELSE IF FLe(match_score, FromInt(MarginalFitMin)) THEN "Marginal Fit"
    ELSE "Not Fit"

EnhancedResumeAnalyzer_determine_fit_level(match_score) ==
    IF FLe(FromInt(GreatFitMin), match_score) THEN "Great Fit"
    ELSE IF FLe(FromInt(PossibleFitMin), match_score) THEN "Possible Fit"
    ELSE IF FLe(FromInt(MarginalFitMin), match_score) THEN "Marginal Fit"
    ELSE "Not Fit"

FitInit ==
    /\ machine = "fit"
    /\ pc = "start"
    /\ fit_scores \in FitScores \X FitScores
    /\ fit_labels = [c \in {} |-> <<>>]
    /\ MatchIdle /\ AtsIdle /\ MergeIdle /\ ParserIdle /\ StoreIdle

FitClassifiers == {"analytics_new", "enhanced_resume_analyzer"}

FitPc(labels) == IF DOMAIN labels = FitClassifiers THEN "classified" ELSE "classifying"

(* analytics_new._determine_fit_level applied to both scores *)
determine_fit_level ==
    /\ machine = "fit" /\ "analytics_new" \notin DOMAIN fit_labels
    /\ fit_labels' = fit_labels @@
          ("analytics_new" :> <<_determine_fit_level(fit_scores[1]),
                               _determine_fit_level(fit_scores[2])>>)
    /\ pc' = FitPc(fit_labels')
    /\ UNCHANGED <<machine, fit_scores, matchVars, atsVars, mergeVars, parserVars, storeVars>>

(* EnhancedResumeAnalyzer._determine_fit_level applied to both scores *)
enhanced_determine_fit_level ==
    /\ machine = "fit" /\ "enhanced_resume_analyzer" \notin DOMAIN fit_labels
    /\ fit_labels' = fit_labels @@
          ("enhanced_resume_analyzer" :>
              <<EnhancedResumeAnalyzer_determine_fit_level(fit_scores[1]),
                EnhancedResumeAnalyzer_determine_fit_level(fit_scores[2])>>)
    /\ pc' = FitPc(fit_labels')
    /\ UNCHANGED <<machine, fit_scores, matchVars, atsVars, mergeVars, parserVars, storeVars>>

FitNext ==
    \/ determine_fit_level
    \/ enhanced_determine_fit_level

FitSpec == FitInit /\ [][FitNext]_vars

(* C5: for every match score s in [0,100] the fit level assigned is          *)
(* "Great Fit" if s >= 80, "Possible Fit" if 60 <= s < 80 and "Not Fit" if   *)
(* s < 60, and it is always one of these three labels.                       *)
C5_ThreeBands ==
    \A c \in DOMAIN fit_labels : \A i \in 1..2 :
        LET s == fit_scores[i]
            l == fit_labels[c][i]
        IN  /\ l \in {"Great Fit", "Possible Fit", "Not Fit"}
            /\ (FLe(FromInt(80), s) => l = "Great Fit")
            /\ (FLe(FromInt(60), s) /\ FLt(s, FromInt(80)) => l = "Possible Fit")
            /\ (FLt(s, FromInt(60)) => l = "Not Fit")

(* C6: every fit classifier is non-decreasing in the match score: for        *)
(* scores a <= b the label of a is not above the label of b in the order     *)
(* Not Fit < Marginal Fit < Possible Fit < Great Fit.                        *)
C6_Monotone ==
    LET Rank(l) == CASE l = "Not Fit" -> 0
                     [] l = "Marginal Fit" -> 1
                     [] l = "Possible Fit" -> 2
                     [] l = "Great Fit" -> 3
                     [] OTHER -> -1
    IN  \A c \in DOMAIN fit_labels :
            /\ Rank(fit_labels[c][1]) >= 0 /\ Rank(fit_labels[c][2]) >= 0
            /\ (FLe(fit_scores[1], fit_scores[2]) =>
                   Rank(fit_labels[c][1]) <= Rank(fit_labels[c][2]))
            /\ (FLe(fit_scores[2], fit_scores[1]) =>
                   Rank(fit_labels[c][2]) <= Rank(fit_labels[c][1]))

C6_Witness ==
    /\ pc = "classified"
    /\ FLt(fit_scores[1], fit_scores[2])
    /\ fit_labels["analytics_new"] = <<"Not Fit", "Possible Fit">>
    /\ fit_labels["enhanced_resume_analyzer"] = <<"Marginal Fit", "Possible Fit">>

-----------------------------------------------------------------------------
(* ATS scoring of EnhancedResumeAnalyzer                                     *)
(* (backend/app/services/enhanced_resume_analyzer.py)                        *)

(* len(tok); the token "U+2022" stands for the one-character string made   *)
(* of the bullet character U+2022                                            *)
TokLen(tok) == IF tok = "U+2022" THEN 1 ELSE Len(tok)

(* the token has a character outside \x00-\x7F (every token has at most one) *)
IsNonAscii(tok) == tok = "U+2022"

(* the token has a character matching [^\w\s] (at most one per token) *)
IsSpecial(tok) == tok \in {"-", "U+2022"}

(* the token counts for str.count of the bullet characters *)
IsBullet(tok) == tok \in {"-", "U+2022"}

(* needle in tok, for the needles the scorer looks for *)
IsSubstring(needle, tok) ==
    \/ needle = tok
    \/ needle = ""
    \/ <<needle, tok>> \in {<<"skill", "skills">>}

(* keyword in resume_text: a needle without spaces lies within one token *)
Contains(rt, needle) == needle = "" \/ \E i \in 1..Len(rt) : IsSubstring(needle, rt[i])

(* len(resume_text.split()) *)
WordCount(rt) == Cardinality({i \in 1..Len(rt) : rt[i] # ""})

RECURSIVE CharsFrom(_, _)
CharsFrom(rt, i) == IF i > Len(rt) THEN 0 ELSE TokLen(rt[i]) + CharsFrom(rt, i + 1)

(* len(resume_text): the tokens and the spaces that join them *)
TextLen(rt) == IF Len(rt) = 0 THEN 0 ELSE CharsFrom(rt, 1) + Len(rt) - 1

(* len(re.findall(r'\s{3,}', text)): maximal runs of three or more spaces;  *)
(* run is the number of spaces met since the last non-empty token            *)
RECURSIVE WhitespaceRuns(_, _, _)
WhitespaceRuns(rt, i, run) ==
    IF i > Len(rt)
    THEN (IF run >= 3 THEN 1 ELSE 0)
    ELSE LET r == IF i > 1 THEN run + 1 ELSE run
         IN  IF rt[i] = ""
             THEN WhitespaceRuns(rt, i + 1, r)
             ELSE (IF r >= 3 THEN 1 ELSE 0) + WhitespaceRuns(rt, i + 1, 0)

BandLow == FDiv(3, 2)
BandHigh == FDiv(7, 2)
BandCentre == FDiv(5, 2)

(* the penalty bottoms out at 0 instead of 50 *)
Mut_evaluate_keyword_density_floor0(rt, kws) ==
    IF Len(kws) = 0 THEN FromInt(0)
    ELSE LET found_keywords == Cardinality({k \in 1..Len(kws) : Contains(rt, kws[k])})
             resume_words == WordCount(rt)
         IN  IF resume_words > 0
             THEN LET density == FMul(FDiv(found_keywords, resume_words), FromInt(100))
                  IN  IF FLe(BandLow, density) /\ FLe(density, BandHigh)
                      THEN FromInt(100)
                      ELSE IF FLt(FromInt(0), density)
                      THEN FMax(FromInt(0), FSub(FromInt(100),
                                   FMul(FAbs(FSub(density, BandCentre)), FromInt(20))))
                      ELSE FromInt(0)
             ELSE FromInt(0)

(* density = (found_keywords / resume_words) * 100 is a float: the quotient *)
(* 7/200 rounds up, so 7 keywords in 200 words come out as                   *)
(* 3.5000000000000004 and fail density <= 3.5                                *)
_evaluate_keyword_density(rt, kws) ==
    IF Len(kws) = 0 THEN FromInt(0)
    ELSE LET found_keywords == Cardinality({k \in 1..Len(kws) : Contains(rt, kws[k])})
             resume_words == WordCount(rt)
         IN  IF resume_words > 0
             THEN LET density == FMul(FDiv(found_keywords, resume_words), FromInt(100))
                  IN  IF FLe(BandLow, density) /\ FLe(density, BandHigh)
                      THEN FromInt(100)
                      ELSE IF FLt(FromInt(0), density)
                      THEN FMax(FromInt(50), FSub(FromInt(100),
                                   FMul(FAbs(FSub(density, BandCentre)), FromInt(20))))
                      ELSE FromInt(0)
             ELSE FromInt(0)

FormattingPenalties(rt) ==
    LET problematic_chars == Cardinality({i \in 1..Len(rt) : IsNonAscii(rt[i])})
        multiple_spaces == WhitespaceRuns(rt, 1, 0)
        special_chars == Cardinality({i \in 1..Len(rt) : IsSpecial(rt[i])})
    IN  problematic_chars * 5 + multiple_spaces * 3
        + (IF FLt(FMul(FromInt(TextLen(rt)), FDiv(1, 10)), FromInt(special_chars))
           THEN 20 ELSE 0)

(* the score is returned without the max(0.0, score) *)
Mut_evaluate_formatting_unclamped(rt) == FromInt(100 - FormattingPenalties(rt))

_evaluate_formatting(rt) == FMax(FromInt(0), FromInt(100 - FormattingPenalties(rt)))

required_sections == {"experience", "education", "skills"}

(* matches of \b(?:experience|education|skills|projects|certifications)\b *)
(* in one lower-cased token                                                 *)
IsSectionMarker(tok) ==
    tok \in {"experience", "education", "skills", "projects", "certifications"}

_evaluate_structure(rt) ==
    LET lower == [i \in 1..Len(rt) |-> Lower(rt[i])]
        missing == Cardinality({section \in required_sections : ~Contains(lower, section)})
        section_markers == Cardinality({i \in 1..Len(rt) : IsSectionMarker(lower[i])})
    IN  FMax(FromInt(0), FromInt(100 - 20 * missing - (IF section_markers < 3 THEN 15 ELSE 0)))

action_verbs == {"developed", "implemented", "managed", "created", "designed", "led",
                 "improved", "achieved"}

_evaluate_clarity(rt) ==
    LET lower == [i \in 1..Len(rt) |-> Lower(rt[i])]
        bullet_points == Cardinality({i \in 1..Len(rt) : IsBullet(rt[i])})
        action_verb_count == Cardinality({verb \in action_verbs : Contains(lower, verb)})
    IN  FMax(FromInt(0), FromInt(100 - (IF bullet_points < 5 THEN 20 ELSE 0)
                               - (IF action_verb_count < 3 THEN 15 ELSE 0)))

(* the weights of formatting and structure are exchanged *)
Mut_analyzer_calculate_ats_score_weights(rt, kws) ==
    IF Len(kws) = 0 THEN FromInt(0)
    ELSE FMin(FAdd(FAdd(FAdd(FMul(_evaluate_keyword_density(rt, kws), FDiv(35, 100)),
                             FMul(_evaluate_formatting(rt), FDiv(20, 100))),
                        FMul(_evaluate_structure(rt), FDiv(30, 100))),
                   FMul(_evaluate_clarity(rt), FDiv(15, 100))),
              FromInt(100))

EnhancedResumeAnalyzer_calculate_ats_score(rt, kws) ==
    IF Len(kws) = 0 THEN FromInt(0)
    ELSE FMin(FAdd(FAdd(FAdd(FMul(_evaluate_keyword_density(rt, kws), FDiv(35, 100)),
                             FMul(_evaluate_formatting(rt), FDiv(30, 100))),
                        FMul(_evaluate_structure(rt), FDiv(20, 100))),
                   FMul(_evaluate_clarity(rt), FDiv(15, 100))),
              FromInt(100))

MaxCore == 3
MaxPad == 68
MaxAtsKeywords == 2

CoreVocab == {"", "python", "Skills", "experience", "education", "developed", "managed",
              "led", "U+2022"}
Fillers == {"lorem", "-", "U+2022", ""}
KeywordVocab == {"python", "skill"}

(* p copies of the token f *)
Pad(f, p) == [i \in 1..p |-> f]

(* the resume texts scored: every short text over CoreVocab, and the texts  *)
(* of at most one such token followed by 1..MaxPad copies of a filler        *)
AtsTexts ==
    TextsUpTo(CoreVocab, MaxCore) \cup
    {c \o Pad(f, p) : c \in TextsUpTo(CoreVocab, 1), f \in Fillers, p \in 1..MaxPad}

(* the job description is the text made of the job keywords *)
AtsInit ==
    /\ machine = "ats"
    /\ pc = "start"
    /\ resume_text \in AtsTexts
    /\ job_keywords \in TextsUpTo(KeywordVocab, MaxAtsKeywords)
    /\ job_description = job_keywords
    /\ resume_skills = {} /\ job_skills = {}
    /\ scored = NoScores /\ returned = {} /\ http_status = 0
    /\ ats_scores = NoAtsScores
    /\ keyword_density = FromInt(0)
    /\ FitIdle /\ MergeIdle /\ ParserIdle /\ StoreIdle

(* EnhancedResumeAnalyzer._calculate_ats_score and the four evaluations *)
calculate_ats_score ==
    /\ machine = "ats" /\ pc = "start"
    /\ pc' = "ats_evaluated"
    /\ ats_scores' =
          [keyword_density |-> _evaluate_keyword_density(resume_text, job_keywords),
           formatting |-> _evaluate_formatting(resume_text),
           structure |-> _evaluate_structure(resume_text),
           clarity |-> _evaluate_clarity(resume_text),
           ats_score |-> EnhancedResumeAnalyzer_calculate_ats_score(resume_text, job_keywords)]
    /\ keyword_density' = _evaluate_keyword_density(resume_text, job_keywords)
    /\ UNCHANGED <<machine, job_keywords, matchVars, fitVars, mergeVars, parserVars, storeVars>>

(* analytics_new._perform_basic_analysis on the same resume text and job    *)
(* text: the ats_score that reaches the stored results                      *)
report_ats_score ==
    /\ machine = "ats" /\ pc = "ats_evaluated"
    /\ pc' = "ats_reported"
    /\ \E results \in _perform_basic_analysis(resume_skills, job_skills,
                                              resume_text, job_description) :
          returned' = returned \cup {results}
    /\ scored' = BasicScores(resume_skills, job_skills, resume_text, job_description)
    /\ UNCHANGED <<machine, resume_skills, job_skills, resume_text, job_description,
                   http_status>>
    /\ UNCHANGED <<fitVars, atsVars, mergeVars, parserVars, storeVars>>

AtsNext ==
    \/ calculate_ats_score
    \/ report_ats_score

AtsSpec == AtsInit /\ [][AtsNext]_vars

InRange(x) == FLe(FromInt(0), x) /\ FLe(x, FromInt(100))

(* C7: for every resume text and job keyword list, each ATS sub-score        *)
(* (keyword density, formatting, structure, clarity) and the overall ATS     *)
(* score lie in [0,100], pathological texts included.                        *)
C7_SubScoresInRange ==
    pc \in {"ats_evaluated", "ats_reported"} =>
        /\ InRange(ats_scores.keyword_density)
        /\ InRange(ats_scores.formatting)
        /\ InRange(ats_scores.structure)
        /\ InRange(ats_scores.clarity)
        /\ InRange(ats_scores.ats_score)
        /\ InRange(_evaluate_keyword_density(resume_text, job_keywords))
        /\ InRange(_evaluate_formatting(resume_text))

C7_Witness ==
    /\ pc = "ats_evaluated"
    /\ Len(resume_text) > 20
    /\ \A i \in 1..Len(resume_text) : resume_text[i] = "U+2022"
    /\ ats_scores.formatting = FromInt(0)
    /\ ats_scores.structure = FromInt(25)
    /\ ats_scores.clarity = FromInt(85)

(* the weighted sum of the four sub-scores, added up from left to right *)
WeightedAts(sc) ==
    FAdd(FAdd(FAdd(FMul(sc.keyword_density, FDiv(35, 100)),
                   FMul(sc.formatting, FDiv(30, 100))),
              FMul(sc.structure, FDiv(20, 100))),
         FMul(sc.clarity, FDiv(15, 100)))

(* C8 as stated: the ats_score reported in the MatchResult equals            *)
(* 0.35 keyword_density + 0.30 formatting + 0.20 structure + 0.15 clarity    *)
(* of the resume (to the one decimal the result keeps), each sub-score in    *)
(* 0..100; stated for resume texts of plain lower-case words and a job       *)
(* description of distinct keywords.                                         *)
C8_Original ==
    (/\ pc = "ats_reported"
     /\ \A i \in 1..Len(resume_text) : resume_text[i] \in {"python", "lorem", "led"}
     /\ \A i, j \in 1..Len(job_keywords) : i # j => job_keywords[i] # job_keywords[j]) =>
        \A r \in returned :
            /\ r.ats_score = Round1(WeightedAts(ats_scores))
            /\ InRange(ats_scores.keyword_density) /\ InRange(ats_scores.formatting)
            /\ InRange(ats_scores.structure) /\ InRange(ats_scores.clarity)

(* C8 amended: EnhancedResumeAnalyzer._calculate_ats_score is the weighted   *)
(* sum 0.35 kd + 0.30 formatting + 0.20 structure + 0.15 clarity (each in    *)
(* 0..100) when the keyword list is non-empty and 0 when it is empty; the    *)
(* ats_score of the MatchResult of perform_analysis is instead the share of  *)
(* the distinct job-description words found among the resume words, times    *)
(* 100, to one decimal (0 when the job description has no words).            *)
C8_AtsFormula ==
    /\ (pc \in {"ats_evaluated", "ats_reported"} =>
           /\ ats_scores.ats_score =
                 IF Len(job_keywords) = 0 THEN FromInt(0) ELSE WeightedAts(ats_scores)
           /\ InRange(ats_scores.keyword_density) /\ InRange(ats_scores.formatting)
           /\ InRange(ats_scores.structure) /\ InRange(ats_scores.clarity))
    /\ (pc = "ats_reported" =>
           LET jw == WordSet(job_description)
               rw == WordSet(resume_text)
           IN  \A r \in returned :
                  r.ats_score = IF jw = {} THEN FromInt(0)
                                ELSE Round1(FMul(FDiv(Cardinality(jw \cap rw), Cardinality(jw)),
                                                 FromInt(100))))

C8_Witness ==
    /\ pc = "ats_reported"
    /\ job_keywords = <<"python">>
    /\ ats_scores.keyword_density = FromInt(100)
    /\ ats_scores.ats_score = FDiv(319, 4)
    /\ \E r \in returned : r.ats_score = FromInt(100)

-----------------------------------------------------------------------------
(* _evaluate_keyword_density on its own, on long texts and keyword lists *)

MaxDensityPad == 200
MaxDensityKeywords == 7

DensityKeywordVocab == {"python", "sql"}

(* a text of W or W + 1 words, with or without the keyword "python" *)
DensityTexts ==
    {c \o Pad("lorem", p) : c \in {<<>>, <<"python">>}, p \in 0..MaxDensityPad}

DensityInit ==
    /\ machine = "density"
    /\ pc = "start"
    /\ resume_text \in DensityTexts
    /\ job_keywords \in TextsUpTo(DensityKeywordVocab, MaxDensityKeywords)
    /\ job_description = <<>>
    /\ resume_skills = {} /\ job_skills = {}
    /\ scored = NoScores /\ returned = {} /\ http_status = 0
    /\ ats_scores = NoAtsScores
    /\ keyword_density = FromInt(0)
    /\ FitIdle /\ MergeIdle /\ ParserIdle /\ StoreIdle

evaluate_keyword_density ==
    /\ machine = "density" /\ pc = "start"
    /\ pc' = "density_done"
    /\ keyword_density' = _evaluate_keyword_density(resume_text, job_keywords)
    /\ UNCHANGED <<machine, job_keywords, ats_scores, matchVars, fitVars, mergeVars, parserVars, storeVars>>

DensityNext == evaluate_keyword_density

DensitySpec == DensityInit /\ [][DensityNext]_vars

(* m and W of a text and keyword list: the keywords of the list found in    *)
(* the text, each entry counted, and the words of the text                   *)
FoundKeywords(rt, kws) ==
    Cardinality({k \in 1..Len(kws) : \E i \in 1..Len(rt) : rt[i] = kws[k]})

(* where the density 100 m / W lies: in the band 1.5..3.5, or outside it   *)
(* at the distance Dist / (2 W) from the nearest edge                       *)
InBand(m, W) == 3 * W <= 200 * m /\ 200 * m <= 7 * W

Dist(m, W) == IF 200 * m < 3 * W THEN 3 * W - 200 * m ELSE 200 * m - 7 * W

Farther(m1, W1, m2, W2) == Dist(m1, W1) * W2 < Dist(m2, W2) * W1

(* C9 as stated: with W > 0 words and m keywords found, d = 100 m / W, the  *)
(* sub-score is 100 when 1.5 <= d <= 3.5 and max(0, 100 - k dist) outside,   *)
(* dist the distance to the nearest band edge, for one fixed k > 0: of two   *)
(* evaluations outside the band the farther one scores strictly less, unless *)
(* the nearer one is at the floor 0 already.  The evaluation of this state   *)
(* is compared with those of the one-keyword texts of up to three words.     *)
C9_Original ==
    (pc = "density_done" /\ WordCount(resume_text) > 0 /\ Len(job_keywords) > 0) =>
        LET m == FoundKeywords(resume_text, job_keywords)
            W == WordCount(resume_text)
            Decays(m1, W1, s1, m2, W2, s2) ==
                Farther(m1, W1, m2, W2) =>
                    /\ FLe(s2, s1)
                    /\ (FLt(FromInt(0), s1) => FLt(s2, s1))
        IN  IF InBand(m, W)
            THEN keyword_density = FromInt(100)
            ELSE /\ FLe(FromInt(0), keyword_density)
                 /\ FLt(keyword_density, FromInt(100))
                 /\ \A p \in 0..2 :
                       /\ Decays(m, W, keyword_density, 1, p + 1,
                                 _evaluate_keyword_density(<<"python">> \o Pad("lorem", p),
                                                           <<"python">>))
                       /\ Decays(1, p + 1,
                                 _evaluate_keyword_density(<<"python">> \o Pad("lorem", p),
                                                           <<"python">>),
                                 m, W, keyword_density)

(* C9 amended: with W > 0 and d = (m / W) x 100 as the float computes it,  *)
(* the sub-score is 100 when 1.5 <= d <= 3.5 holds of that float, which to  *)
(* the exact density means 1.5 <= 100 m / W < 3.5: a density of exactly 3.5 *)
(* is computed as 3.5000000000000004, is outside the band and scores 80.    *)
(* It is 0 when no keyword is found (d = 0) and otherwise                   *)
(* max(50, 100 - |d - 2.5| x 20): the penalty grows with the distance from  *)
(* the band centre 2.5 and the score never falls below 50.  With W = 0 or   *)
(* an empty keyword list the sub-score is 0.                                *)
C9_KeywordDensity ==
    pc = "density_done" =>
        LET m == FoundKeywords(resume_text, job_keywords)
            W == WordCount(resume_text)
        IN  IF W = 0 \/ m = 0
            THEN keyword_density = FromInt(0)
            ELSE IF 3 * W <= 200 * m /\ 200 * m < 7 * W
            THEN keyword_density = FromInt(100)
            ELSE /\ keyword_density =
                       FMax(FromInt(50),
                            FSub(FromInt(100),
                                 FMul(FAbs(FSub(FMul(FDiv(m, W), FromInt(100)),
                                                FDiv(5, 2))),
                                      FromInt(20))))
                 /\ FLe(FromInt(50), keyword_density)
                 /\ FLe(keyword_density, FromInt(80))

C9_Witness ==
    /\ pc = "density_done"
    /\ FoundKeywords(resume_text, job_keywords) = 7
    /\ WordCount(resume_text) = 200
    /\ keyword_density = FromInt(80)

-----------------------------------------------------------------------------
(* Merging the external parse result with the rule-based extraction:        *)
(* EnhancedResumeParser._merge_with_rules                                    *)
(* (backend/app/services/enhanced_resume_parser.py)                          *)
(*                                                                           *)
(* A string field holds "None" for Python's None, or a string; a list field  *)
(* holds a sequence.  Populated values are "ai" / <<"ai">> in the external   *)
(* result and "rule" / <<"rule">> in the rule-based extraction.              *)

MaxPopulated == 3

PersonalInfoKeys == {"name", "email", "phone", "location", "linkedin", "github", "website"}
SkillBuckets == {"technical", "soft", "domain"}
ListFields == {"experience", "education", "projects", "certifications", "languages", "awards"}

(* the order in which _merge_with_rules treats the fields *)
MergeSteps == <<"personal_info", "skills", "experience", "education", "projects",
                "certifications", "languages", "awards", "summary">>

(* the places of a result that can hold a value *)
Slots ==
    ({"personal_info"} \X PersonalInfoKeys) \cup ({"skills"} \X SkillBuckets)
    \cup ((ListFields \cup {"summary"}) \X {""})

(* _extract_personal_info always leaves location None (line 367) *)
RuleSlots == Slots \ {<<"personal_info", "location">>}

RECURSIVE SubsetsUpTo(_, _)
SubsetsUpTo(S, k) ==
    IF k = 0 THEN {{}}
    ELSE LET smaller == SubsetsUpTo(S, k - 1)
         IN  smaller \cup {A \cup {x} : A \in smaller, x \in S}

(* the result dict whose populated places are P, each holding val *)
MakeResult(P, val) ==
    [personal_info |-> [k \in PersonalInfoKeys |->
                           IF <<"personal_info", k>> \in P THEN val ELSE "None"],
     skills |-> [b \in SkillBuckets |-> IF <<"skills", b>> \in P THEN <<val>> ELSE <<>>],
     experience |-> IF <<"experience", "">> \in P THEN <<val>> ELSE <<>>,
     education |-> IF <<"education", "">> \in P THEN <<val>> ELSE <<>>,
     projects |-> IF <<"projects", "">> \in P THEN <<val>> ELSE <<>>,
     certifications |-> IF <<"certifications", "">> \in P THEN <<val>> ELSE <<>>,
     languages |-> IF <<"languages", "">> \in P THEN <<val>> ELSE <<>>,
     awards |-> IF <<"awards", "">> \in P THEN <<val>> ELSE <<>>,
     summary |-> IF <<"summary", "">> \in P THEN val ELSE "None"]

(* bool(v) of an Optional[str] *)
TruthyStr(v) == v \notin {"None", ""}

(* any(d.values()) *)
AnyPersonalInfo(info) == \E k \in PersonalInfoKeys : TruthyStr(info[k])
AnySkills(skills) == \E b \in SkillBuckets : skills[b] # <<>>

(* the extractor of step i is called: always for personal_info, otherwise   *)
(* only when the field is empty                                              *)
ExtractorCalled(res, i) ==
    CASE MergeSteps[i] = "personal_info" -> TRUE
      [] MergeSteps[i] = "skills" -> ~AnySkills(res.skills)
      [] MergeSteps[i] = "summary" -> ~TruthyStr(res.summary)
      [] OTHER -> res[MergeSteps[i]] = <<>>

(* the backfill of personal_info lacks the test that the field is empty *)
Mut_merge_with_rules_overwrite(res, rule, stop) ==
    LET Applied(f) == \E i \in 1..(stop - 1) : MergeSteps[i] = f
        ListField(f) == IF Applied(f) /\ res[f] = <<>> THEN rule[f] ELSE res[f]
    IN  [personal_info |->
            IF ~Applied("personal_info") THEN res.personal_info
            ELSE IF ~AnyPersonalInfo(res.personal_info) THEN rule.personal_info
            ELSE [k \in PersonalInfoKeys |->
                     IF TruthyStr(rule.personal_info[k])
                     THEN rule.personal_info[k] ELSE res.personal_info[k]],
         skills |-> IF Applied("skills") /\ ~AnySkills(res.skills)
                    THEN rule.skills ELSE res.skills,
         experience |-> ListField("experience"),
         education |-> ListField("education"),
         projects |-> ListField("projects"),
         certifications |-> ListField("certifications"),
         languages |-> ListField("languages"),
         awards |-> ListField("awards"),
         summary |-> IF Applied("summary") /\ ~TruthyStr(res.summary)
                     THEN rule.summary ELSE res.summary]

(* _merge_with_rules(result, cleaned_text), rule being what the extractors  *)
(* return for cleaned_text.  The steps before stop are carried out; stop =   *)
(* Len(MergeSteps) + 1 is the normal return, a smaller stop is the return of *)
(* the except clause after the extractor of step stop (or _split_sections,   *)
(* for stop = 1) raised.                                                     *)
_merge_with_rules(res, rule, stop) ==
    LET Applied(f) == \E i \in 1..(stop - 1) : MergeSteps[i] = f
        ListField(f) == IF Applied(f) /\ res[f] = <<>> THEN rule[f] ELSE res[f]
    IN  [personal_info |->
            IF ~Applied("personal_info") THEN res.personal_info
            ELSE IF ~AnyPersonalInfo(res.personal_info) THEN rule.personal_info
            ELSE [k \in PersonalInfoKeys |->
                     IF TruthyStr(rule.personal_info[k]) /\ ~TruthyStr(res.personal_info[k])
                     THEN rule.personal_info[k] ELSE res.personal_info[k]],
         skills |-> IF Applied("skills") /\ ~AnySkills(res.skills)
                    THEN rule.skills ELSE res.skills,
         experience |-> ListField("experience"),
         education |-> ListField("education"),
         projects |-> ListField("projects"),
         certifications |-> ListField("certifications"),
         languages |-> ListField("languages"),
         awards |-> ListField("awards"),
         summary |-> IF Applied("summary") /\ ~TruthyStr(res.summary)
                     THEN rule.summary ELSE res.summary]

(* parse_resume hands the external result (a ParsedResumeStructure as a     *)
(* dict, every key present) to _merge_with_rules; at most MaxPopulated       *)
(* places are populated in the external result and the extraction together   *)
MergeInit ==
    /\ machine = "merge"
    /\ pc = "start"
    /\ \E P \in SubsetsUpTo(({"ai"} \X Slots) \cup ({"rule"} \X RuleSlots), MaxPopulated) :
          /\ external_result = MakeResult({t[2] : t \in {u \in P : u[1] = "ai"}}, "ai")
          /\ rule_based = MakeResult({t[2] : t \in {u \in P : u[1] = "rule"}}, "rule")
    /\ result = external_result
    /\ MatchIdle /\ FitIdle /\ AtsIdle /\ ParserIdle /\ StoreIdle

merge_with_rules ==
    /\ machine = "merge" /\ pc = "start"
    /\ pc' = "merged"
    /\ \E stop \in 1..(Len(MergeSteps) + 1) :
          /\ stop <= Len(MergeSteps) => ExtractorCalled(result, stop)
          /\ result' = _merge_with_rules(result, rule_based, stop)
    /\ UNCHANGED <<machine, external_result, rule_based, matchVars, fitVars, atsVars, parserVars, storeVars>>

MergeNext == merge_with_rules

MergeSpec == MergeInit /\ [][MergeNext]_vars

(* C10: after _merge_with_rules every field the external result populated   *)
(* with a non-empty value (each personal_info sub-field, skills, experience, *)
(* education, projects, certifications, languages, awards, summary) holds    *)
(* exactly that value, and a field that changed was empty in the external    *)
(* result and now holds the rule-based value.                                *)
C10_MergePrecedence ==
    pc = "merged" =>
        /\ \A k \in PersonalInfoKeys :
              /\ (TruthyStr(external_result.personal_info[k]) =>
                     result.personal_info[k] = external_result.personal_info[k])
              /\ (result.personal_info[k] # external_result.personal_info[k] =>
                     result.personal_info[k] = rule_based.personal_info[k])
        /\ (AnySkills(external_result.skills) => result.skills = external_result.skills)
        /\ (result.skills # external_result.skills => result.skills = rule_based.skills)
        /\ \A f \in ListFields :
              /\ (external_result[f] # <<>> => result[f] = external_result[f])
              /\ (result[f] # external_result[f] => result[f] = rule_based[f])
        /\ (TruthyStr(external_result.summary) => result.summary = external_result.summary)
        /\ (result.summary # external_result.summary => result.summary = rule_based.summary)

C10_Witness ==
    /\ pc = "merged"
    /\ external_result.personal_info["name"] = "ai"
    /\ rule_based.personal_info["name"] = "rule"
    /\ rule_based.personal_info["email"] = "rule"
    /\ result.personal_info["name"] = "ai"
    /\ result.personal_info["email"] = "rule"

(***************************************************************************)
(* Resume parser (backend/app/services/enhanced_resume_parser.py)          *)
(*                                                                         *)
(* A parser text is a sequence of atoms and stands for the string made of  *)
(* the atoms written one after the other.  An atom is one character        *)
(* (" ", "\t", "\n", "\r", ":", "-", ",", "|", "/", ";"), a character      *)
(* outside ASCII named by its code point ("U+2022" is the bullet, "U+2013" *)
(* the en dash, "U+2014" the em dash), the glyph-code remnant "(cid:1)",   *)
(* or a word: letters and digits only.  The vocabularies below hold no two *)
(* words whose concatenation is a word the parser looks for.               *)
(***************************************************************************)

LF == "\n"
CR == "\r"

(* the characters str.strip() removes, among the atoms *)
IsWhitespace(a) == a \in {" ", "\t", LF, CR}

(* "".join(parts) for a sequence of texts *)
RECURSIVE Flatten(_)
Flatten(parts) ==
    IF parts = <<>> THEN <<>> ELSE Head(parts) \o Flatten(Tail(parts))

(* text.replace(old, new) for a one-atom old *)
Replace(t, old, new) ==
    Flatten([i \in 1..Len(t) |-> IF t[i] = old THEN new ELSE <<t[i]>>])

(* text.split(sep) for a one-atom sep *)
RECURSIVE Split(_, _)
Split(t, sep) ==
    IF \A i \in 1..Len(t) : t[i] # sep
    THEN <<t>>
    ELSE LET k == CHOOSE i \in 1..Len(t) :
                      t[i] = sep /\ \A j \in 1..(i - 1) : t[j] # sep
         IN  <<SubSeq(t, 1, k - 1)>> \o Split(SubSeq(t, k + 1, Len(t)), sep)

(* sep.join(parts) *)
RECURSIVE Join(_, _)
Join(parts, sep) ==
    IF parts = <<>> THEN <<>>
    ELSE IF Len(parts) = 1 THEN parts[1]
    ELSE parts[1] \o sep \o Join(Tail(parts), sep)

(* s.lstrip(), s.rstrip() and s.strip() *)
RECURSIVE LStrip(_)
LStrip(s) == IF s # <<>> /\ IsWhitespace(Head(s)) THEN LStrip(Tail(s)) ELSE s

RECURSIVE RStrip(_)
RStrip(s) ==
    IF s # <<>> /\ IsWhitespace(s[Len(s)])
    THEN RStrip(SubSeq(s, 1, Len(s) - 1)) ELSE s

Strip(s) == LStrip(RStrip(s))

(* CID_RE.sub("", text): the glyph-code remnants are deleted *)
CID_RE(a) == a \in {"(cid:1)"}

(* text.replace("\r\n", "\n").replace("\r", "\n") *)
LineEndsToLF(t) ==
    LET crlf == Flatten([i \in 1..Len(t) |->
                    IF t[i] = CR /\ i < Len(t) /\ t[i + 1] = LF
                    THEN <<>> ELSE <<t[i]>>])
    IN  Replace(crlf, CR, <<LF>>)

(* BULLETS, in the order of the list: the replacements are made one after   *)
(* the other, so a "-" written for an earlier bullet is replaced again      *)
BULLETS == <<"U+2022", "U+25E6", "U+25AA", "U+25A0", "U+2013", "U+2014", "-",
             "U+25CF", "U+2219", "U+00B7", "U+25BA", "U+2666">>

RECURSIVE ReplaceBullets(_, _)
ReplaceBullets(t, k) ==
    IF k > Len(BULLETS) THEN t
    ELSE ReplaceBullets(Replace(t, BULLETS[k], <<"-", " ">>), k + 1)

(* MULTISPACE.sub(" ", ln): each run of spaces and tabs becomes one space *)
MULTISPACE(ln) ==
    Flatten([i \in 1..Len(ln) |->
        IF ln[i] \in {" ", "\t"}
        THEN IF i > 1 /\ ln[i - 1] \in {" ", "\t"} THEN <<>> ELSE <<" ">>
        ELSE <<ln[i]>>])

(* the text with its layout kept: glyph codes deleted, line ends mapped,   *)
(* bullets rewritten, then each line squeezed and trimmed                  *)
_normalize_text_keep_layout(t) ==
    LET nocid == SelectSeq(t, LAMBDA a : ~CID_RE(a))
        lf == LineEndsToLF(nocid)
        dashed == ReplaceBullets(lf, 1)
        lines == Split(dashed, LF)
    IN  Join([i \in 1..Len(lines) |-> Strip(MULTISPACE(lines[i]))], <<LF>>)

(* Normalizer machine: one raw text, normalised once *)

MaxRawLen == 4

RawAtoms == {"a", " ", "\t", LF, CR, "(cid:1)", "U+2022", "-"}

RECURSIVE SeqsUpTo(_, _)
SeqsUpTo(S, n) ==
    IF n = 0 THEN {<<>>}
    ELSE LET shorter == SeqsUpTo(S, n - 1)
         IN  shorter \cup {Append(s, a) : s \in shorter, a \in S}

NormalizeInit ==
    /\ machine = "normalize"
    /\ pc = "start"
    /\ input_text \in SeqsUpTo(RawAtoms, MaxRawLen)
    /\ content_type = ""
    /\ parser_env = NoResult
    /\ utcnow = 0
    /\ extracted = <<>>
    /\ parsed = <<>>
    /\ MatchIdle /\ FitIdle /\ AtsIdle /\ MergeIdle /\ StoreIdle

normalize_text_keep_layout ==
    /\ machine = "normalize"
    /\ pc = "start"
    /\ extracted' = _normalize_text_keep_layout(input_text)
    /\ pc' = "normalized"
    /\ UNCHANGED <<machine, input_text, content_type, parser_env, utcnow, parsed,
                   matchVars, fitVars, atsVars, mergeVars, storeVars>>

NormalizeNext == normalize_text_keep_layout

NormalizeSpec == NormalizeInit /\ [][NormalizeNext]_vars

(* C16: the normaliser never merges lines: once CR and CRLF line ends are  *)
(* read as LF, the output has as many lines as the input, and output line  *)
(* i is what the normaliser makes of input line i taken alone.             *)
C16_LinesPreserved ==
    pc = "normalized" =>
        LET inlines == Split(LineEndsToLF(input_text), LF)
            outlines == Split(extracted, LF)
        IN  /\ Len(outlines) = Len(inlines)
            /\ \A i \in 1..Len(inlines) :
                   outlines[i] = _normalize_text_keep_layout(inlines[i])

(* Section segmenter *)

(* an alias written as its words: the words joined by one space *)
Words(ws) == Join([i \in 1..Len(ws) |-> <<ws[i]>>], <<" ">>)

(* SECTION_ALIASES: the section keys in the order of the dict, and the     *)
(* aliases of each                                                         *)
SectionKeys == <<"summary", "skills", "experience", "education", "projects",
                 "certifications", "languages", "awards", "leadership",
                 "references">>

SECTION_ALIASES(key) ==
    CASE key = "summary" ->
           {<<"summary">>, <<"objective">>, <<"profile">>,
            <<"professional", "profile">>, <<"about">>, <<"highlights">>,
            <<"career", "summary">>, <<"professional", "summary">>}
      [] key = "skills" ->
           {<<"skills">>, <<"technical", "skills">>, <<"core", "skills">>,
            <<"competencies">>, <<"strengths">>,
            <<"technical", "competencies">>, <<"areas", "of", "expertise">>,
            <<"expertise">>, <<"capabilities">>, <<"key", "skills">>,
            <<"core", "competencies">>}
      [] key = "experience" ->
           {<<"experience">>, <<"work", "experience">>,
            <<"professional", "experience">>, <<"employment", "history">>,
            <<"work", "history">>, <<"relevant", "experience">>,
            <<"professional", "history">>, <<"career", "history">>,
            <<"industry", "experience">>, <<"volunteer", "experience">>,
            <<"volunteering">>}
      [] key = "education" ->
           {<<"education">>, <<"academic", "background">>, <<"academics">>,
            <<"education", "&", "training">>, <<"training">>,
            <<"coursework">>, <<"courses">>}
      [] key = "projects" ->
           {<<"projects">>, <<"personal", "projects">>,
            <<"selected", "projects">>, <<"notable", "projects">>,
            <<"portfolio">>, <<"case", "studies">>, <<"engagements">>}
      [] key = "certifications" ->
           {<<"certifications">>, <<"licenses">>,
            <<"licenses", "&", "certifications">>,
            <<"licences", "&", "certifications">>, <<"licences">>,
            <<"licenses", "and", "certifications">>}
      [] key = "languages" -> {<<"languages">>, <<"language", "proficiency">>}
      [] key = "awards" ->
           {<<"awards">>, <<"honors">>, <<"honours">>, <<"achievements">>,
            <<"recognition">>, <<"publications">>, <<"press">>, <<"media">>}
      [] key = "leadership" ->
           {<<"leadership">>, <<"leadership", "experience">>, <<"activities">>,
            <<"affiliations">>, <<"memberships">>}
      [] key = "references" -> {<<"references">>}

(* s.lower() *)
LowerAll(s) == [i \in 1..Len(s) |-> Lower(s[i])]

(* s.rstrip(":"): every trailing colon goes *)
RECURSIVE RStripColons(_)
RStripColons(s) ==
    IF s # <<>> /\ s[Len(s)] = ":"
    THEN RStripColons(SubSeq(s, 1, Len(s) - 1)) ELSE s

(* a variant that takes a line holding an alias anywhere for a heading *)
Mut_heading_key_contains(line) ==
    LET s == Strip(RStripColons(LowerAll(Strip(line))))
        holds(key) == \E ws \in SECTION_ALIASES(key) :
                        \E i \in 1..Len(s) : \E j \in i..Len(s) :
                            SubSeq(s, i, j) = Words(ws)
        hits == {k \in 1..Len(SectionKeys) : holds(SectionKeys[k])}
    IN  IF hits = {} THEN "None"
        ELSE SectionKeys[CHOOSE k \in hits : \A h \in hits : k <= h]

(* the section key a line is the heading of, "None" if it is no heading *)
_heading_key(line) ==
    LET s == Strip(RStripColons(LowerAll(Strip(line))))
        hits == {k \in 1..Len(SectionKeys) :
                    \E ws \in SECTION_ALIASES(SectionKeys[k]) : s = Words(ws)}
    IN  IF hits = {} THEN "None"
        ELSE SectionKeys[CHOOSE k \in hits : \A h \in hits : k <= h]

(* the loop of _split_sections from line k on; sections maps the keys seen  *)
(* so far to their lines                                                    *)
RECURSIVE SplitLoop(_, _, _, _)
SplitLoop(lines, k, sections, current) ==
    IF k > Len(lines) THEN sections
    ELSE LET key == _heading_key(lines[k])
         IN  IF key # "None"
             THEN SplitLoop(lines, k + 1,
                      IF key \in DOMAIN sections THEN sections
                      ELSE sections @@ (key :> <<>>),
                      key)
             ELSE SplitLoop(lines, k + 1,
                      [sections EXCEPT ![current] = Append(@, lines[k])],
                      current)

_split_sections(t) == SplitLoop(Split(t, LF), 1, ("header" :> <<>>), "header")

(* Segmenter machine: one text of a few lines, split once *)

MaxSectionLines == 3

SectionLines ==
    {<<"Skills">>, <<"Skills", ":">>, <<"Skills", " ", ":">>,
     <<"Skills", ":", ":">>, <<" ", "SKILLS", ":", " ">>,
     <<"my", " ", "skills">>, <<":", "Skills">>,
     <<"Work", " ", "Experience">>, <<"experience">>, <<"python">>, <<>>}

TextsOfLines(L, n) == {Join(ls, <<LF>>) : ls \in SeqsUpTo(L, n) \ {<<>>}}

SectionInit ==
    /\ machine = "sections"
    /\ pc = "start"
    /\ input_text \in TextsOfLines(SectionLines, MaxSectionLines)
    /\ content_type = ""
    /\ parser_env = NoResult
    /\ utcnow = 0
    /\ extracted = <<>>
    /\ parsed = <<>>
    /\ MatchIdle /\ FitIdle /\ AtsIdle /\ MergeIdle /\ StoreIdle

split_sections ==
    /\ machine = "sections"
    /\ pc = "start"
    /\ extracted' = _split_sections(input_text)
    /\ pc' = "split"
    /\ UNCHANGED <<machine, input_text, content_type, parser_env, utcnow, parsed,
                   matchVars, fitVars, atsVars, mergeVars, storeVars>>

SectionNext == split_sections

SectionSpec == SectionInit /\ [][SectionNext]_vars

(* every alias of the heading table, as a text *)
AllAliases ==
    UNION {{Words(ws) : ws \in SECTION_ALIASES(SectionKeys[k])} :
              k \in 1..Len(SectionKeys)}

KeyOfAlias(s) ==
    SectionKeys[CHOOSE k \in 1..Len(SectionKeys) :
                    \E ws \in SECTION_ALIASES(SectionKeys[k]) : s = Words(ws)]

(* the sections a text falls into when the heading lines are the lines     *)
(* whose normal form Norm is an alias: each other line belongs to the      *)
(* section of the last heading before it, to "header" if there is none     *)
SectionsBy(lines, Norm(_)) ==
    LET IsHeading(i) == Norm(lines[i]) \in AllAliases
        CurrentAt(i) ==
            LET hs == {j \in 1..(i - 1) : IsHeading(j)}
            IN  IF hs = {} THEN "header"
                ELSE KeyOfAlias(Norm(lines[CHOOSE j \in hs : \A h \in hs : h <= j]))
        keys == {"header"} \cup
                {KeyOfAlias(Norm(lines[i])) : i \in {j \in 1..Len(lines) : IsHeading(j)}}
        indexed == [i \in 1..Len(lines) |-> <<i, lines[i]>>]
        content(key) ==
            LET sel == SelectSeq(indexed,
                         LAMBDA q : ~IsHeading(q[1]) /\ CurrentAt(q[1]) = key)
            IN  [i \in 1..Len(sel) |-> sel[i][2]]
    IN  [key \in keys |-> content(key)]

(* trimmed, lower-cased, one trailing colon stripped *)
TrimLowerColon(line) ==
    LET s == LowerAll(Strip(line))
    IN  IF s # <<>> /\ s[Len(s)] = ":" THEN SubSeq(s, 1, Len(s) - 1) ELSE s

(* trimmed, lower-cased, all trailing colons stripped, trimmed again *)
RECURSIVE DropColons(_)
DropColons(s) ==
    IF s # <<>> /\ s[Len(s)] = ":" THEN DropColons(SubSeq(s, 1, Len(s) - 1)) ELSE s

TrimLowerColonsTrim(line) == Strip(DropColons(LowerAll(Strip(line))))

(* C15 as stated: a line switches the section exactly when, trimmed,       *)
(* lower-cased and with a trailing colon stripped, it equals an alias;     *)
(* every other line is appended to the current section.                    *)
C15_Original ==
    pc = "split" =>
        extracted = SectionsBy(Split(input_text, LF), TrimLowerColon)

(* C15 amended: a line switches the section exactly when, trimmed,         *)
(* lower-cased, with every trailing colon stripped and trimmed again, it   *)
(* equals an alias; every other line, a line that only contains an alias   *)
(* included, is appended to the current section.                           *)
C15_HeadingExact ==
    pc = "split" =>
        extracted = SectionsBy(Split(input_text, LF), TrimLowerColonsTrim)

(* C15 witness: a line containing an alias inside a longer text was kept   *)
(* as content of the section a heading line "Skills :" opened.             *)
C15_Witness ==
    /\ pc = "split"
    /\ input_text = Join(<<(<<"Skills", " ", ":">>), (<<"my", " ", "skills">>)>>, <<LF>>)
    /\ extracted = ("header" :> <<>>) @@ ("skills" :> << <<"my", " ", "skills">> >>)

(* Experience extractor *)

(* Python's None where a text or a list is expected; no vocabulary holds   *)
(* the word None                                                           *)
None == <<"None">>

(* the last two digits of a year *)
LastTwoDigits(y) ==
    CASE y = "2019" -> "19" [] y = "2020" -> "20" [] y = "2021" -> "21"
      [] y = "2022" -> "22" [] y = "2023" -> "23"

(* DATE_SPAN_RE.search(t): whether t holds a date span, and the start and  *)
(* end groups of the leftmost one.  A date is a month word, white space    *)
(* and a year, or one or two digits, "/" and a year, or a year; a span is  *)
(* a date, a dash or "to", and a date or a present word, white space       *)
(* allowed around the separator.  The pattern has no word boundary: where  *)
(* a year is directly followed by "/" and a year, its last two digits      *)
(* start a date of the second form (2020/2021 holds the date 20/2021).     *)
(* The vocabularies keep month words, present words and "to" as whole      *)
(* atoms and no two digit atoms are adjacent, so no other match starts or  *)
(* ends inside an atom.  A month word is a capitalised month abbreviation  *)
(* followed by any lower case letters: the name Jane is one.               *)
DATE_SPAN_RE(t) ==
    LET month == {"Jan", "Feb", "Mar", "Apr", "May", "Jun", "Jul", "Aug", "Sep",
                  "Sept", "Oct", "Nov", "Dec", "January", "March", "Jane"}
        year == {"2019", "2020", "2021", "2022", "2023"}
        digits == {"03", "06", "3", "12"}
        present == {"Present", "Now", "Current", "present", "now", "current"}
        at(p) == IF p <= Len(t) THEN t[p] ELSE ""
        skip(p) == CHOOSE q \in p..(Len(t) + 1) :
                       /\ \A j \in p..(q - 1) : IsWhitespace(t[j])
                       /\ ~IsWhitespace(at(q)) \/ q = Len(t) + 1
        \* the date that starts inside the year at p
        inner(p) == at(p) \in year /\ at(p + 1) = "/" /\ at(p + 2) \in year
        \* the position after the date that starts at or in p, 0 if there is none
        date(p) ==
            IF at(p) \in month /\ IsWhitespace(at(p + 1)) /\ at(skip(p + 1)) \in year
            THEN skip(p + 1) + 1
            ELSE IF (at(p) \in digits \/ at(p) \in year) /\ at(p + 1) = "/"
                    /\ at(p + 2) \in year
            THEN p + 3
            ELSE IF at(p) \in year THEN p + 1
            ELSE 0
        \* the end group starts at an atom: a year there is taken whole
        endDate(p) ==
            IF at(p) \in year THEN p + 1 ELSE date(p)
        sep(p) == skip(date(p))
        endAt(p) == skip(sep(p) + 1)
        endStop(p) == IF at(endAt(p)) \in present THEN endAt(p) + 1
                      ELSE endDate(endAt(p))
        span(p) == /\ date(p) # 0
                   /\ at(sep(p)) \in {"-", "U+2013", "U+2014", "to"}
                   /\ endStop(p) # 0
        hits == {p \in 1..Len(t) : span(p)}
    IN  IF hits = {} THEN [found |-> FALSE, start |-> None, end |-> None]
        ELSE LET p == CHOOSE h \in hits : \A g \in hits : h <= g
             IN  [found |-> TRUE,
                  start |-> IF inner(p)
                            THEN <<LastTwoDigits(t[p]), "/", t[p + 2]>>
                            ELSE SubSeq(t, p, date(p) - 1),
                  end |-> SubSeq(t, endAt(p), endStop(p) - 1)]

(* re.split(r"\s*[|\-...,]\s*", hdr), each part stripped: the parts        *)
(* between the separators, without the white space around them             *)
SplitHeader(hdr) ==
    LET SepPositions == {i \in 1..Len(hdr) : hdr[i] \in {"|", "-", "U+2013", "U+2014", ","}}
        bounds == <<0>> \o SelectSeq([i \in 1..Len(hdr) |-> i],
                              LAMBDA i : i \in SepPositions) \o <<Len(hdr) + 1>>
    IN  [k \in 1..(Len(bounds) - 1) |->
            Strip(SubSeq(hdr, bounds[k] + 1, bounds[k + 1] - 1))]

(* _collect_blocks(lines): the runs of lines between blank lines *)
RECURSIVE CollectLoop(_, _, _, _)
CollectLoop(lines, k, blocks, cur) ==
    IF k > Len(lines)
    THEN IF cur # <<>> THEN Append(blocks, cur) ELSE blocks
    ELSE IF Strip(lines[k]) = <<>>
         THEN CollectLoop(lines, k + 1,
                          IF cur # <<>> THEN Append(blocks, cur) ELSE blocks, <<>>)
         ELSE CollectLoop(lines, k + 1, blocks, Append(cur, lines[k]))

_collect_blocks(lines) == CollectLoop(lines, 1, <<>>, <<>>)

(* _parse_bullets(lines) *)
_parse_bullets(lines) ==
    LET s(i) == Strip(lines[i])
        kept == SelectSeq([i \in 1..Len(lines) |-> i],
                    LAMBDA i : s(i) # <<>> /\
                               s(i) \notin {<<"-">>, <<"U+2013">>, <<"U+2014">>})
        bullet(x) == IF Len(x) >= 2 /\ x[1] = "-" /\ x[2] = " "
                     THEN Strip(SubSeq(x, 3, Len(x))) ELSE x
    IN  [k \in 1..Len(kept) |-> bullet(s(kept[k]))]

(* x or None *)
OrNone(x) == IF x = <<>> THEN None ELSE x

(* the entry _extract_experience makes of one block *)
ExperienceEntry(b) ==
    LET m == DATE_SPAN_RE(Join(b, <<" ">>))
        parts == SplitHeader(b[1])
        title1 == OrNone(parts[1])
        company1 == IF Len(parts) >= 2 THEN OrNone(parts[2]) ELSE None
        loc1 == IF Len(parts) >= 3 THEN OrNone(parts[3]) ELSE None
        shift == title1 # None /\ DATE_SPAN_RE(title1).found /\ Len(b) > 1
        parts2 == SplitHeader(b[2])
    IN  [title |-> IF shift THEN parts2[1] ELSE title1,
         company |-> IF shift /\ Len(parts2) > 1 THEN parts2[2] ELSE company1,
         location |-> IF shift /\ Len(parts2) > 2 THEN parts2[3] ELSE loc1,
         start_date |-> m.start,
         end_date |-> m.end,
         duration |-> None,
         description |-> _parse_bullets(Tail(b))]

(* a variant that drops the blocks in which no date span is found *)
Mut_extract_experience_dated_only(sections) ==
    LET lines == IF "experience" \in DOMAIN sections
                 THEN sections["experience"] ELSE <<>>
        blocks == SelectSeq(_collect_blocks(lines),
                      LAMBDA b : DATE_SPAN_RE(Join(b, <<" ">>)).found)
    IN  [k \in 1..Len(blocks) |-> ExperienceEntry(blocks[k])]

_extract_experience(sections) ==
    LET lines == IF "experience" \in DOMAIN sections
                 THEN sections["experience"] ELSE <<>>
        blocks == _collect_blocks(lines)
    IN  [k \in 1..Len(blocks) |-> ExperienceEntry(blocks[k])]

(* Experience machine: the lines of one experience section, extracted once *)

MaxExperienceLines == 3

TitleLine == Words(<<"Software", "Engineer", "-", "Acme", "Inc", "-", "Remote">>)

SpanLines == {Words(<<"Jan", "2022", "-", "Present">>),
              Words(<<"2020", "to", "2021">>)}

CompanySpanLines ==
    {Words(<<"Acme", "Jan", "2022", "-", "Present">>),
     Words(<<"Acme", "2020", "to", "2021">>),
     <<"Acme", " ", "03", "/", "2020", " ", "U+2013", " ", "06", "/", "2021">>}

BulletLine == Words(<<"-", "Built", "APIs">>)

ExperienceLines ==
    {TitleLine, BulletLine, <<"Engineer">>, <<>>, <<" ">>}
        \cup SpanLines \cup CompanySpanLines

ExperienceInit ==
    /\ machine = "experience"
    /\ pc = "start"
    /\ input_text \in TextsOfLines(ExperienceLines, MaxExperienceLines)
    /\ content_type = ""
    /\ parser_env = NoResult
    /\ utcnow = 0
    /\ extracted = <<>>
    /\ parsed = <<>>
    /\ MatchIdle /\ FitIdle /\ AtsIdle /\ MergeIdle /\ StoreIdle

extract_experience ==
    /\ machine = "experience"
    /\ pc = "start"
    /\ extracted' = _extract_experience(("experience" :> Split(input_text, LF)))
    /\ pc' = "experience_extracted"
    /\ UNCHANGED <<machine, input_text, content_type, parser_env, utcnow, parsed,
                   matchVars, fitVars, atsVars, mergeVars, storeVars>>

ExperienceNext == extract_experience

ExperienceSpec == ExperienceInit /\ [][ExperienceNext]_vars

(* the blocks of a list of lines, as <<first, last>> line numbers: the     *)
(* maximal runs of lines that are not blank, in order                      *)
BlockRanges(lines) ==
    LET blank(i) == i < 1 \/ i > Len(lines) \/ Strip(lines[i]) = <<>>
        firsts == SelectSeq([i \in 1..Len(lines) |-> i],
                      LAMBDA i : ~blank(i) /\ blank(i - 1))
        lastOf(i) == CHOOSE j \in i..Len(lines) :
                         blank(j + 1) /\ \A h \in i..j : ~blank(h)
    IN  [k \in 1..Len(firsts) |-> <<firsts[k], lastOf(firsts[k])>>]

(* C17: _extract_experience returns one entry per block of lines between   *)
(* blank lines, in the order of the blocks; a block without a date span    *)
(* gives an entry too, with null start_date and end_date.                  *)
C17_EntryPerBlock ==
    pc = "experience_extracted" =>
        LET lines == Split(input_text, LF)
            ranges == BlockRanges(lines)
            block(k) == SubSeq(lines, ranges[k][1], ranges[k][2])
        IN  /\ Len(extracted) = Len(ranges)
            /\ \A k \in 1..Len(ranges) :
                  /\ extracted[k] = ExperienceEntry(block(k))
                  /\ ~DATE_SPAN_RE(Join(block(k), <<" ">>)).found =>
                        /\ extracted[k].start_date = None
                        /\ extracted[k].end_date = None

(* C17 witness: two blocks, the second without a date span, gave two       *)
(* entries, the second with null dates.                                    *)
C17_Witness ==
    /\ pc = "experience_extracted"
    /\ input_text = Join(<<Words(<<"Jan", "2022", "-", "Present">>), <<>>,
                            <<"Engineer">> >>, <<LF>>)
    /\ Len(extracted) = 2
    /\ extracted[1].start_date = Words(<<"Jan", "2022">>)
    /\ extracted[2].title = <<"Engineer">>
    /\ extracted[2].start_date = None

(* C18: a block made of the line "Title - Company - Location", a date span *)
(* line and a bullet line gives title, company and location from the first *)
(* line, the dates of the span, and as description exactly the bullet line *)
(* without its leading "- ".                                               *)
C18_ScenarioC ==
    pc = "experience_extracted" =>
        LET lines == Split(input_text, LF)
        IN  (Len(lines) = 3 /\ lines[1] = TitleLine /\ lines[2] \in SpanLines
                /\ lines[3] = BulletLine) =>
               /\ Len(extracted) = 1
               /\ extracted[1].title = Words(<<"Software", "Engineer">>)
               /\ extracted[1].company = Words(<<"Acme", "Inc">>)
               /\ extracted[1].location = <<"Remote">>
               /\ extracted[1].start_date = DATE_SPAN_RE(lines[2]).start
               /\ extracted[1].end_date = DATE_SPAN_RE(lines[2]).end
               /\ extracted[1].description = <<Words(<<"Built", "APIs">>)>>

(* C19: when the first line of a block is a company followed by a date     *)
(* span, whatever the form of the span, and the block has a second line,   *)
(* the title of the entry is taken from the second line.                   *)
C19_TitleFromSecondLine ==
    pc = "experience_extracted" =>
        LET lines == Split(input_text, LF)
        IN  (Len(lines) >= 2 /\ lines[1] \in CompanySpanLines
                /\ Strip(lines[2]) # <<>>) =>
               extracted[1].title = SplitHeader(lines[2])[1]

(* Skills extractor *)

(* the section names _extract_skills_generic gathers its lines from *)
skill_sections ==
    <<"skills", "competencies", "core competencies", "key skills",
      "technical skills", "professional skills", "expertise",
      "areas of expertise", "qualifications", "strengths", "core strengths",
      "abilities", "proficiencies">>

(* the label sets of _extract_skills_generic, each label as its atoms *)
TECH_LABELS ==
    {<<"3d", " ", "modeling">>, <<"accounting", " ", "software">>,
     <<"adobe">>, <<"ai">>, <<"ai", "/", "ml">>,
     <<"ai", "/", "ml", " ", "&", " ", "data">>, <<"analytics">>,
     <<"android">>, <<"audio", " ", "editing">>, <<"autocad">>,
     <<"automation">>, <<"back", "-", "end">>, <<"backend">>, <<"bi">>,
     <<"blockchain">>, <<"bloomberg">>, <<"cad">>,
     <<"cell", " ", "culture">>, <<"cerner">>, <<"chromatography">>,
     <<"clinical", " ", "research">>, <<"cloud">>,
     <<"cloud", "/", "devops">>, <<"cnc">>, <<"crm">>, <<"data">>,
     <<"database">>, <<"databases">>, <<"design", " ", "software">>,
     <<"devops">>, <<"diagnostic", " ", "tools">>, <<"ehr">>, <<"emr">>,
     <<"engineering">>, <<"epic">>, <<"erp">>, <<"etl">>, <<"excel">>,
     <<"figma">>, <<"financial", " ", "modeling">>,
     <<"financial", " ", "software">>, <<"frameworks">>, <<"frontend">>,
     <<"full", "-", "stack">>, <<"graphic", " ", "design">>,
     <<"illustrator">>, <<"imaging">>, <<"indesign">>, <<"infrastructure">>,
     <<"ios">>, <<"laboratory", " ", "equipment">>,
     <<"laboratory", " ", "techniques">>, <<"lean", " ", "manufacturing">>,
     <<"libraries">>, <<"matlab">>, <<"medical", " ", "devices">>,
     <<"medical", " ", "software">>, <<"microscopy">>, <<"ml">>,
     <<"mobile">>, <<"modeling">>, <<"oracle">>, <<"other", " ", "tools">>,
     <<"pathology">>, <<"pcr">>, <<"photoshop">>, <<"platforms">>, <<"plc">>,
     <<"programming">>, <<"python">>, <<"qa">>,
     <<"quality", " ", "control">>, <<"quickbooks">>, <<"r">>,
     <<"radiology">>, <<"research", " ", "methods">>,
     <<"risk", " ", "management">>, <<"sap">>, <<"scada">>, <<"security">>,
     <<"simulation">>, <<"six", " ", "sigma">>, <<"sketch">>,
     <<"solidworks">>, <<"spectroscopy">>, <<"spss">>,
     <<"statistical", " ", "analysis">>, <<"systems">>, <<"technical">>,
     <<"technical", " ", "skills">>, <<"testing">>, <<"tools">>,
     <<"trading", " ", "platforms">>, <<"ux", "/", "ui">>,
     <<"video", " ", "editing">>, <<"visualization">>,
     <<"web", " ", "design">>}

SOFT_LABELS ==
    {<<"adaptability">>, <<"analytical", " ", "thinking">>, <<"coaching">>,
     <<"collaboration">>, <<"communication">>,
     <<"conflict", " ", "resolution">>, <<"creativity">>,
     <<"critical", " ", "thinking">>, <<"cultural", " ", "awareness">>,
     <<"customer", " ", "service">>, <<"decision", " ", "making">>,
     <<"emotional", " ", "intelligence">>, <<"facilitation">>,
     <<"flexibility">>, <<"innovation">>, <<"interpersonal">>,
     <<"leadership">>, <<"mentoring">>, <<"negotiation">>,
     <<"organization">>, <<"presentation">>, <<"problem", " ", "solving">>,
     <<"project", " ", "management">>, <<"public", " ", "speaking">>,
     <<"resilience">>, <<"sales">>, <<"soft">>, <<"soft", " ", "skills">>,
     <<"stakeholder", " ", "management">>, <<"strategic", " ", "thinking">>,
     <<"team", " ", "building">>, <<"teamwork">>,
     <<"time", " ", "management">>, <<"training">>}

DOMAIN_LABELS ==
    {<<"anesthesiology">>, <<"assessment">>, <<"banking">>,
     <<"brand", " ", "identity">>, <<"brand", " ", "management">>,
     <<"business">>, <<"business", " ", "development">>, <<"cardiology">>,
     <<"certifications">>, <<"classroom", " ", "management">>,
     <<"color", " ", "theory">>, <<"compliance">>, <<"composition">>,
     <<"content", " ", "marketing">>, <<"contract", " ", "law">>,
     <<"corporate", " ", "law">>, <<"criminal", " ", "law">>,
     <<"curriculum", " ", "development">>, <<"digital", " ", "marketing">>,
     <<"domain">>, <<"early", " ", "childhood">>, <<"education">>,
     <<"emergency", " ", "medicine">>, <<"employment", " ", "law">>,
     <<"environmental", " ", "compliance">>, <<"esl">>,
     <<"family", " ", "law">>, <<"fda", " ", "regulations">>, <<"finance">>,
     <<"gmp">>, <<"haccp">>, <<"healthcare">>,
     <<"higher", " ", "education">>, <<"hospitality">>, <<"hr">>,
     <<"human", " ", "resources">>, <<"immigration", " ", "law">>,
     <<"industry">>, <<"intellectual", " ", "property">>,
     <<"iso", " ", "standards">>, <<"lesson", " ", "planning">>,
     <<"litigation">>, <<"logistics">>, <<"market", " ", "research">>,
     <<"marketing">>, <<"methodologies">>, <<"motion", " ", "graphics">>,
     <<"nursing">>, <<"occupational", " ", "therapy">>, <<"oncology">>,
     <<"operations">>, <<"pathology">>, <<"pediatrics">>, <<"pharmacy">>,
     <<"physical", " ", "therapy">>, <<"ppc">>, <<"practices">>,
     <<"process", " ", "improvement">>, <<"procurement">>,
     <<"quality", " ", "assurance">>, <<"radiology">>,
     <<"real", " ", "estate">>, <<"real", " ", "estate", " ", "law">>,
     <<"regulatory">>, <<"regulatory", " ", "compliance">>, <<"retail">>,
     <<"safety", " ", "management">>, <<"sales">>, <<"sem">>, <<"seo">>,
     <<"social", " ", "media">>, <<"special", " ", "education">>, <<"stem">>,
     <<"storytelling">>, <<"strategic", " ", "planning">>,
     <<"supply", " ", "chain">>,
     <<"supply", " ", "chain", " ", "management">>, <<"surgery">>,
     <<"tax", " ", "law">>, <<"typography">>, <<"user", " ", "experience">>,
     <<"user", " ", "interface">>, <<"vendor", " ", "management">>,
     <<"visual", " ", "communication">>}

(* whether a text holds the atoms of sub one after the other *)
HasSubSeq(s, sub) ==
    \E i \in 1..(Len(s) - Len(sub) + 1) : SubSeq(s, i, i + Len(sub) - 1) = sub

(* label_to_bucket(label).  The two patterns of the regular-expression     *)
(* fallback are made of letters only, so a match lies inside one word; the *)
(* sets name the lower-case words of the vocabularies in which the         *)
(* technical and the soft pattern are found.                               *)
label_to_bucket(label) ==
    LET lab == RStripColons(LowerAll(Strip(label)))
        tech_found == \E i \in 1..Len(lab) : lab[i] \in {"tools"}
        soft_found == \E i \in 1..Len(lab) : lab[i] \in {"leadership", "team"}
    IN  IF lab \in TECH_LABELS THEN "technical"
        ELSE IF lab \in SOFT_LABELS THEN "soft"
        ELSE IF lab \in DOMAIN_LABELS THEN "domain"
        ELSE IF tech_found THEN "technical"
        ELSE IF soft_found THEN "soft"
        ELSE "domain"

(* [x.strip() for x in re.split(seps, ln) if x.strip()] *)
SplitItems(ln, seps) ==
    LET cuts == <<0>> \o SelectSeq([i \in 1..Len(ln) |-> i],
                            LAMBDA i : ln[i] \in seps) \o <<Len(ln) + 1>>
        pieces == [k \in 1..(Len(cuts) - 1) |->
                      Strip(SubSeq(ln, cuts[k] + 1, cuts[k + 1] - 1))]
    IN  SelectSeq(pieces, LAMBDA x : x # <<>>)

(* the headings the bucket loop skips *)
GenericHeadings ==
    {Words(<<"skills">>), Words(<<"technical", "skills">>),
     Words(<<"soft", "skills">>), Words(<<"core", "skills">>),
     Words(<<"competencies">>), Words(<<"strengths">>),
     Words(<<"technical", "competencies">>),
     Words(<<"areas", "of", "expertise">>), Words(<<"key", "skills">>),
     Words(<<"core", "competencies">>)}

(* the loop over the lines of the skills sections, from line k on *)
RECURSIVE BucketLoop(_, _, _, _)
BucketLoop(lines, k, buckets, current) ==
    IF k > Len(lines) THEN buckets
    ELSE LET ln == Strip(lines[k])
             low == RStripColons(LowerAll(ln))
         IN  IF ln = <<>> \/ low \in GenericHeadings
             THEN BucketLoop(lines, k + 1, buckets, current)
             ELSE IF ln[Len(ln)] = ":"
             THEN BucketLoop(lines, k + 1, buckets, label_to_bucket(ln))
             ELSE BucketLoop(lines, k + 1,
                      [buckets EXCEPT ![current] =
                           @ \o SplitItems(ln, {",", "/", "|", ";"})],
                      current)

(* the items in order, each kept the first time its lower-case form occurs *)
Deduplicate(items) ==
    SelectSeq([i \in 1..Len(items) |-> <<i, items[i]>>],
        LAMBDA q : \A j \in 1..(q[1] - 1) : LowerAll(items[j]) # LowerAll(q[2]))

(* the free-text fallback: the skills of all the lines, then their buckets. *)
(* The key words of the two classes are letters only; the sets name the     *)
(* lower-case words of the vocabularies that hold one.  A skill of fewer    *)
(* than two characters is one of the one-character atoms.                   *)
FreeTextSkills(lines) ==
    LET glyphs == {"U+2022", "U+25E6", "U+25AA", "U+25A0", "U+2013", "U+2014", "-"}
        clean(ln) == LET s == Strip(ln)
                     IN  IF s # <<>> /\ s[1] \in glyphs THEN LStrip(Tail(s)) ELSE s
        parts(ln) == LET c == clean(ln)
                         ps == SplitItems(c, {",", "/", "|", ";", "U+2022"})
                     IN  IF c = <<>> THEN <<>>
                         ELSE IF ps = <<>> THEN <<c>> ELSE ps
        flat == Flatten([i \in 1..Len(lines) |-> parts(lines[i])])
        headers == {Words(<<"skills">>), Words(<<"technical", "skills">>),
                    Words(<<"soft", "skills">>), Words(<<"core", "skills">>),
                    Words(<<"competencies">>), Words(<<"key", "skills">>),
                    Words(<<"areas", "of", "expertise">>)}
        one_char == {" ", "\t", ":", "-", ",", "|", "/", ";", "&", "r", "a", "x"}
        short(s) == Len(s) = 0 \/ (Len(s) = 1 /\ (s[1] \in one_char \/ s[1] \in glyphs))
        kept == SelectSeq([i \in 1..Len(flat) |-> <<i, flat[i]>>],
                    LAMBDA q : /\ LowerAll(q[2]) \notin headers
                               /\ ~short(q[2])
                               /\ \A j \in 1..(q[1] - 1) :
                                      \/ LowerAll(flat[j]) # LowerAll(q[2])
                                      \/ LowerAll(flat[j]) \in headers
                                      \/ short(flat[j]))
        tech(s) == \E i \in 1..Len(s) : Lower(s[i]) \in {"technical", "software"}
        soft(s) == \E i \in 1..Len(s) : Lower(s[i]) \in {"leadership", "team"}
        bucket(s) == IF tech(s) THEN "technical" ELSE IF soft(s) THEN "soft" ELSE "domain"
        of(b) == SelectSeq(kept, LAMBDA q : bucket(q[2]) = b)
    IN  [b \in {"technical", "soft", "domain"} |->
            [i \in 1..Len(of(b)) |-> of(b)[i][2]]]

(* the lines the skills are read from: the skills sections, or else the    *)
(* lines of the summary that announce skills                               *)
SkillLines(sections) ==
    LET get(name) == IF name \in DOMAIN sections THEN sections[name] ELSE <<>>
        named == Flatten([k \in 1..Len(skill_sections) |-> get(skill_sections[k])])
        announces(line) ==
            \E kw \in {Words(<<"skilled", "in">>), Words(<<"proficient", "in">>),
                       Words(<<"experienced", "in">>), Words(<<"expertise", "in">>),
                       Words(<<"knowledge", "of">>)} : HasSubSeq(LowerAll(line), kw)
    IN  IF named # <<>> THEN named
        ELSE SelectSeq(get("summary") \o get("objective") \o get("profile"), announces)

(* a variant that keeps the skills only when a label line names a bucket *)
Mut_extract_skills_generic_labelled_only(sections) ==
    LET lines == SkillLines(sections)
        empty == [b \in {"technical", "soft", "domain"} |-> <<>>]
        labelled == \E i \in 1..Len(lines) :
                        Strip(lines[i]) # <<>> /\ Strip(lines[i])[Len(Strip(lines[i]))] = ":"
    IN  IF labelled THEN BucketLoop(lines, 1, empty, "technical") ELSE empty

(* the three buckets of skills read from the sections *)
_extract_skills_generic(sections) ==
    LET lines == SkillLines(sections)
        empty == [b \in {"technical", "soft", "domain"} |-> <<>>]
        filled == BucketLoop(lines, 1, empty, "technical")
        uniq == [b \in {"technical", "soft", "domain"} |->
                    LET d == Deduplicate(filled[b])
                    IN  [i \in 1..Len(d) |-> d[i][2]]]
    IN  IF lines = <<>> THEN empty
        ELSE IF uniq = empty THEN FreeTextSkills(lines)
        ELSE uniq

(* Skills machine: the lines of the skills section and of the summary of   *)
(* one segmented resume, extracted once.  A heading that nothing follows   *)
(* leaves a section without lines                                          *)

MaxSkillLines == 4

SkillLineVocab ==
    {<<"Technical", ":">>, <<"python", ",", " ", "sql">>,
     <<"Soft", " ", "Skills", ":">>, <<"leadership">>, <<"Soft", ":">>,
     <<"Other", ":">>, <<"Team", " ", "Tools", ":">>, <<>>, <<"Python">>}

SummaryLines ==
    {<<>>, <<<<"Engineer">>>>,
     <<<<"Skilled", " ", "in", " ", "Python">>>>}

ObjectiveLines == {<<>>, <<<<"Knowledge", " ", "of", " ", "sql">>>>}

(* sections of the resume: the skills section, whose lines are those of    *)
(* input_text, the summary, the objective and the profile                  *)
SkillSections ==
    ("skills" :> IF parser_env.skills_lines THEN Split(input_text, LF) ELSE <<>>)
    @@ ("summary" :> parser_env.summary)
    @@ ("objective" :> parser_env.objective)
    @@ ("profile" :> parser_env.profile)

SkillsInit ==
    /\ machine = "skills"
    /\ pc = "start"
    /\ input_text \in TextsOfLines(SkillLineVocab, MaxSkillLines)
    /\ content_type = ""
    /\ parser_env \in [skills_lines : BOOLEAN, summary : SummaryLines,
                       objective : ObjectiveLines, profile : ObjectiveLines]
    /\ ~parser_env.skills_lines => input_text = <<>>
    /\ utcnow = 0
    /\ extracted = <<>>
    /\ parsed = <<>>
    /\ MatchIdle /\ FitIdle /\ AtsIdle /\ MergeIdle /\ StoreIdle

extract_skills_generic ==
    /\ machine = "skills"
    /\ pc = "start"
    /\ extracted' = _extract_skills_generic(SkillSections)
    /\ pc' = "skills_extracted"
    /\ UNCHANGED <<machine, input_text, content_type, parser_env, utcnow, parsed,
                   matchVars, fitVars, atsVars, mergeVars, storeVars>>

SkillsNext == extract_skills_generic

SkillsSpec == SkillsInit /\ [][SkillsNext]_vars

(* C20: the current bucket starts as technical and every line ending in    *)
(* ':' switches it to the bucket of its label, so the tokens of a line go  *)
(* to the bucket of the last label line before it; the lines "Technical:", *)
(* "python, sql", "Soft Skills:", "leadership" give technical = [python,   *)
(* sql], soft = [leadership], domain = [].                                 *)
C20_LabelSwitchesBucket ==
    pc = "skills_extracted" =>
        LET lines == Split(input_text, LF)
            label(i) == Strip(lines[i]) # <<>> /\ Strip(lines[i])[Len(Strip(lines[i]))] = ":"
            bucketAt(i) ==
                LET ls == {j \in 1..(i - 1) : label(j)}
                IN  IF ls = {} THEN "technical"
                    ELSE label_to_bucket(lines[CHOOSE j \in ls : \A h \in ls : h <= j])
            items(i) == SplitItems(lines[i], {",", "/", "|", ";"})
        IN  /\ \A i \in 1..Len(lines) :
                   ~label(i) =>
                       \A n \in 1..Len(items(i)) :
                           \E m \in 1..Len(extracted[bucketAt(i)]) :
                               extracted[bucketAt(i)][m] = items(i)[n]
            /\ input_text = Join(<<(<<"Technical", ":">>), (<<"python", ",", " ", "sql">>),
                                   (<<"Soft", " ", "Skills", ":">>), (<<"leadership">>)>>, <<LF>>)
                   => extracted = [technical |-> << <<"python">>, <<"sql">> >>,
                                   soft |-> << <<"leadership">> >>,
                                   domain |-> <<>>]

(* Rule-based parse *)

(* sections.get(key, []) *)
Get(sections, key) == IF key \in DOMAIN sections THEN sections[key] ELSE <<>>

(* int(a) for the digit atoms of the vocabularies *)
IntOf(a) ==
    CASE a = "2019" -> 2019 [] a = "2020" -> 2020 [] a = "2021" -> 2021
      [] a = "2022" -> 2022 [] a = "2023" -> 2023
      [] a \in {"03", "3"} -> 3 [] a = "06" -> 6 [] a = "12" -> 12
      [] a = "19" -> 19 [] a = "20" -> 20 [] a = "21" -> 21
      [] a = "22" -> 22 [] a = "23" -> 23

(* MONTHS.get(word), 0 for a word that is no month *)
MONTHS(w) ==
    CASE w \in {"jan", "january"} -> 1 [] w \in {"feb", "february"} -> 2
      [] w \in {"mar", "march"} -> 3 [] w \in {"apr", "april"} -> 4
      [] w = "may" -> 5 [] w \in {"jun", "june"} -> 6
      [] w \in {"jul", "july"} -> 7 [] w \in {"aug", "august"} -> 8
      [] w \in {"sep", "sept", "september"} -> 9
      [] w \in {"oct", "october"} -> 10 [] w \in {"nov", "november"} -> 11
      [] w \in {"dec", "december"} -> 12 [] OTHER -> 0

(* a datetime(year, month, 1) is the number of its month, year * 12 +      *)
(* month - 1; NoDate stands for None                                       *)
NoDate == 0 - 1

(* _parse_month_year(s), for s None, "" or made of the atoms of a date *)
_parse_month_year(s) ==
    LET t == Strip(s)
        digits == {"2019", "2020", "2021", "2022", "2023", "03", "3", "06", "12",
                   "19", "20", "21", "22", "23"}
        years == {"2019", "2020", "2021", "2022", "2023"}
        max(a, b) == IF a >= b THEN a ELSE b
        min(a, b) == IF a <= b THEN a ELSE b
    IN  IF s = None \/ s = <<>> THEN NoDate
        ELSE IF Len(t) = 1 /\ t[1] \in years THEN IntOf(t[1]) * 12
        ELSE IF Len(t) = 3 /\ t[1] \in digits \ years /\ t[2] = "/" /\ t[3] \in years
        THEN IntOf(t[3]) * 12 + max(1, min(12, IntOf(t[1]))) - 1
        ELSE IF /\ Len(t) >= 3 /\ t[1] \notin digits /\ IsWhitespace(t[2])
                /\ \E k \in 3..Len(t) :
                      /\ \A j \in 2..(k - 1) : IsWhitespace(t[j])
                      /\ t[k] \in years
                /\ MONTHS(Lower(t[1])) # 0
        THEN LET k == CHOOSE i \in 3..Len(t) : ~IsWhitespace(t[i])
             IN  IntOf(t[k]) * 12 + MONTHS(Lower(t[1])) - 1
        ELSE NoDate

(* _months_between(start, end) at the time now *)
_months_between(start, end, now) ==
    IF start = NoDate THEN 0
    ELSE LET finish == IF end = NoDate THEN now ELSE end
         IN  IF finish - start >= 0 THEN finish - start ELSE 0

(* _calculate_total_experience(experiences) at the time now *)
_calculate_total_experience(experiences, now) ==
    LET open(e) == e # None /\ \E i \in 1..Len(e) :
                        Lower(e[i]) \in {"present", "current", "now"}
        months(x) ==
            _months_between(_parse_month_year(x.start_date),
                            IF open(x.end_date) THEN NoDate
                            ELSE _parse_month_year(x.end_date), now)
        RECURSIVE total(_)
        total(k) == IF k = 0 THEN 0 ELSE total(k - 1) + months(experiences[k])
    IN  Round1(FDiv(total(Len(experiences)), 12))

(* _guess_name_from_header(header_lines): the first line without a digit   *)
(* that has 2 to 8 words (the lines of the vocabularies are shorter than   *)
(* 80 characters)                                                          *)
_guess_name_from_header(header_lines) ==
    LET digits == {"2019", "2020", "2021", "2022", "2023", "03", "3", "06", "12"}
        s(i) == Strip(header_lines[i])
        words(x) == Cardinality({j \in 1..Len(x) :
                        ~IsWhitespace(x[j]) /\ (j = 1 \/ IsWhitespace(x[j - 1]))})
        ok == {i \in 1..Len(header_lines) :
                  /\ s(i) # <<>>
                  /\ \A j \in 1..Len(s(i)) : s(i)[j] \notin digits
                  /\ words(s(i)) >= 2 /\ words(s(i)) <= 8}
    IN  IF ok = {} THEN None ELSE s(CHOOSE i \in ok : \A j \in ok : i <= j)

(* US_CA_ABBR: the abbreviations of the states and provinces *)
US_CA_ABBR ==
    {"AL", "AK", "AZ", "AR", "CA", "CO", "CT", "DC", "DE", "FL", "GA",
     "HI", "IA", "ID", "IL", "IN", "KS", "KY", "LA", "MA", "MD", "ME",
     "MI", "MN", "MO", "MS", "MT", "NC", "ND", "NE", "NH", "NJ", "NM",
     "NV", "NY", "OH", "OK", "OR", "PA", "RI", "SC", "SD", "TN", "TX",
     "UT", "VA", "VT", "WA", "WI", "WV", "AB", "BC", "MB", "NB", "NL",
     "NS", "NT", "NU", "ON", "PE", "QC", "SK", "YT"}

(* a word made of letters only *)
IsLetterWord(a) ==
    /\ a \notin {"", " ", "\t", LF, CR, ",", "-", ":", "|", "/", ";", ".", "'", "(cid:1)"}
    /\ a \notin {"1999", "2019", "2020", "2021", "2022", "2023", "03", "3", "06", "12"}
    /\ \A k \in 1..Len(BULLETS) : a # BULLETS[k]

(* _find_location_candidates(text): the places "City, ST" and "City,       *)
(* Region" of the text, each once.  A city is the longest run of words,    *)
(* spaces, dots, apostrophes and dashes that starts at a word and ends at  *)
(* a comma; a region is such a run after the comma, up to its last word.   *)
(* The vocabularies hold no country name and no city of more than 64       *)
(* characters.                                                             *)
_find_location_candidates(t) ==
    LET at(p) == IF p \in 1..Len(t) THEN t[p] ELSE ""
        inClass(a) == IsLetterWord(a) \/ a \in {" ", "-", ".", "'"}
        runEnd(s) == CHOOSE e \in (s - 1)..Len(t) :
                         /\ \A j \in s..e : inClass(t[j])
                         /\ ~inClass(at(e + 1))
        comma(s) == IF at(runEnd(s) + 1) = "," THEN runEnd(s) + 1 ELSE 0
        skip(p) == CHOOSE q \in p..(Len(t) + 1) :
                       /\ \A j \in p..(q - 1) : IsWhitespace(t[j])
                       /\ ~IsWhitespace(at(q))
        city(s) == Strip(SubSeq(t, s, comma(s) - 1))
        \* CITY_STATE_RE at the word s
        abbrAt(s) == skip(comma(s) + 1)
        twoCapitals(a) == a \in US_CA_ABBR \/ a \in {"XX", "IT", "HR"}
        match1(s) == /\ IsLetterWord(at(s)) /\ comma(s) # 0
                     /\ twoCapitals(at(abbrAt(s)))
        \* CITY_PROV_COUNTRY_RE at the word s
        regionAt(s) == skip(comma(s) + 1)
        regionEnd(s) ==
            LET e == runEnd(regionAt(s))
            IN  IF at(e + 1) \in {"1999", "2019", "2020", "2021", "2022", "2023", "03", "3", "06", "12"}
                THEN e
                ELSE CHOOSE w \in regionAt(s)..e :
                         IsLetterWord(t[w]) /\ \A j \in (w + 1)..e : ~IsLetterWord(t[j])
        region(s) == Strip(SubSeq(t, regionAt(s), regionEnd(s)))
        words(x) == Cardinality({j \in 1..Len(x) :
                        ~IsWhitespace(x[j]) /\ (j = 1 \/ IsWhitespace(x[j - 1]))})
        match2(s) == /\ IsLetterWord(at(s)) /\ comma(s) # 0
                     /\ IsLetterWord(at(regionAt(s)))
        RECURSIVE scan1(_)
        scan1(p) ==
            LET hits == {s \in p..Len(t) : match1(s)}
            IN  IF hits = {} THEN <<>>
                ELSE LET s == CHOOSE h \in hits : \A g \in hits : h <= g
                     IN  (IF at(abbrAt(s)) \in US_CA_ABBR
                          THEN <<city(s) \o <<",", " ", at(abbrAt(s))>>>>
                          ELSE <<>>) \o scan1(abbrAt(s) + 1)
        RECURSIVE scan2(_)
        scan2(p) ==
            LET hits == {s \in p..Len(t) : match2(s)}
            IN  IF hits = {} THEN <<>>
                ELSE LET s == CHOOSE h \in hits : \A g \in hits : h <= g
                     IN  (IF words(region(s)) <= 4
                          THEN <<city(s) \o <<",", " ">> \o region(s)>>
                          ELSE <<>>) \o scan2(regionEnd(s) + 1)
        cands == scan1(1) \o scan2(1)
        uniq == Deduplicate(cands)
    IN  [i \in 1..Len(uniq) |-> uniq[i][2]]

(* the vote that occurs most often, the first of them on a tie *)
MostFrequent(votes) ==
    LET count(v) == Cardinality({k \in 1..Len(votes) : votes[k] = v})
        first(v) == CHOOSE k \in 1..Len(votes) :
                        votes[k] = v /\ \A j \in 1..(k - 1) : votes[j] # v
    IN  IF votes = <<>> THEN None
        ELSE votes[CHOOSE k \in 1..Len(votes) :
                      /\ k = first(votes[k])
                      /\ \A j \in 1..Len(votes) :
                            \/ count(votes[j]) < count(votes[k])
                            \/ count(votes[j]) = count(votes[k]) /\ first(votes[j]) >= k]

(* the locations of a list of entries that have one *)
LocationsOf(entries) ==
    SelectSeq([k \in 1..Len(entries) |-> entries[k].location],
              LAMBDA v : v # None /\ v # <<>>)

(* _majority_vote_location(header_lines, all_text, exp, edu): the votes    *)
(* are the candidates of the header, the locations of the entries and the  *)
(* candidates of the first 30 lines of the text (the texts of the          *)
(* vocabularies are shorter)                                               *)
_majority_vote_location(header_lines, all_text, exp, edu) ==
    LET votes == _find_location_candidates(Join(header_lines, <<" ">>))
                     \o LocationsOf(exp) \o LocationsOf(edu)
                     \o _find_location_candidates(all_text)
        norm == SelectSeq([k \in 1..Len(votes) |-> Strip(votes[k])],
                          LAMBDA v : v # <<>>)
    IN  MostFrequent(norm)

(* Education extractor *)

(* the four-digit years of the vocabularies that begin with 19 or 20, and  *)
(* the group (19|20) of each                                               *)
YearTokens == {"1999", "2019", "2020", "2021", "2022", "2023"}

CenturyOf(y) == IF y = "1999" THEN "19" ELSE "20"

(* the words in which re.search finds a degree word, and those in which it *)
(* finds a school word, whatever the case of their letters                 *)
DegreeWords == {"Bachelor", "Master", "Masters", "PhD", "Diploma", "B.Sc", "M.Sc"}
SchoolWords == {"University", "College", "Institute", "School"}

(* the match of the first line of the two-line form: an institution, white *)
(* space, a date, a dash or "to", and a date or a present word at the end  *)
(* of the line                                                             *)
EducationHead(head) ==
    LET month == {"Jan", "Feb", "Mar", "Apr", "May", "Jun", "Jul", "Aug", "Sep",
                  "Sept", "Oct", "Nov", "Dec", "January", "March", "Jane"}
        digits == {"03", "06", "3", "12"}
        present == {"Present", "Now", "Current", "present", "now", "current"}
        at(p) == IF p \in 1..Len(head) THEN head[p] ELSE ""
        skip(p) == CHOOSE q \in p..(Len(head) + 1) :
                       /\ \A j \in p..(q - 1) : IsWhitespace(head[j])
                       /\ ~IsWhitespace(at(q))
        date(p) ==
            IF at(p) \in month /\ IsWhitespace(at(p + 1)) /\ at(skip(p + 1)) \in YearTokens
            THEN skip(p + 1) + 1
            ELSE IF at(p) \in digits /\ at(p + 1) = "/" /\ at(p + 2) \in YearTokens
            THEN p + 3
            ELSE IF at(p) \in YearTokens THEN p + 1
            ELSE 0
        sep(p) == skip(date(p))
        endAt(p) == skip(sep(p) + 1)
        endStop(p) == IF at(endAt(p)) \in present THEN endAt(p) + 1
                      ELSE date(endAt(p))
        span(p) == /\ p >= 3 /\ IsWhitespace(at(p - 1))
                   /\ date(p) # 0
                   /\ at(sep(p)) \in {"-", "U+2013", "U+2014", "to"}
                   /\ endStop(p) = Len(head) + 1
        hits == {p \in 1..Len(head) : span(p)}
    IN  IF hits = {} THEN [found |-> FALSE, inst |-> None, start |-> None, end |-> None]
        ELSE LET p == CHOOSE h \in hits : \A g \in hits : h <= g
             IN  [found |-> TRUE,
                  inst |-> Strip(SubSeq(head, 1, p - 1)),
                  start |-> SubSeq(head, p, date(p) - 1),
                  end |-> SubSeq(head, endAt(p), endStop(p) - 1)]

(* the match of the second line of the two-line form: a degree, white      *)
(* space, and a place "City, Region" at the end of the line                *)
DegreeAndPlace(line2) ==
    LET at(p) == IF p \in 1..Len(line2) THEN line2[p] ELSE ""
        inClass(a) == IsLetterWord(a) \/ a \in {" ", "-", ".", "'"}
        place(p) == /\ p >= 3 /\ IsWhitespace(at(p - 1))
                    /\ IsLetterWord(at(p))
                    /\ \E c \in (p + 1)..(Len(line2) - 1) :
                          /\ line2[c] = ","
                          /\ \A j \in p..(c - 1) : inClass(line2[j])
                          /\ \E r \in (c + 1)..Len(line2) :
                                /\ \A j \in (c + 1)..(r - 1) : IsWhitespace(line2[j])
                                /\ \A j \in r..Len(line2) : inClass(line2[j])
        hits == {p \in 1..Len(line2) : place(p)}
    IN  IF hits = {} THEN [found |-> FALSE, degree |-> line2, loc |-> None]
        ELSE LET p == CHOOSE h \in hits : \A g \in hits : h <= g
             IN  [found |-> TRUE,
                  degree |-> Strip(SubSeq(line2, 1, p - 1)),
                  loc |-> Strip(SubSeq(line2, p, Len(line2)))]

(* grad_year of a block: re.findall gives the group (19|20) of each year   *)
(* of the joined lines, and the last of them is kept                       *)
GraduationYear(b) ==
    LET joined == Join(b, <<" ">>)
        y == SelectSeq(joined, LAMBDA a : a \in YearTokens)
    IN  IF y = <<>> THEN None ELSE <<CenturyOf(y[Len(y)])>>

(* the entry _extract_education makes of one block; "" is <<>> *)
EducationEntry(b) ==
    LET mhead == EducationHead(Strip(b[1]))
        mloc == DegreeAndPlace(Strip(b[2]))
        two == mhead.found
        parts == SplitHeader(b[1])
        has(part, words) == \E i \in 1..Len(part) : part[i] \in words
        degree1 == IF has(parts[1], DegreeWords) THEN parts[1] ELSE None
        institution1 == IF has(parts[1], DegreeWords) THEN None ELSE parts[1]
        school2 == institution1 \in {None, <<>>} /\ has(parts[2], SchoolWords)
        institution2 == IF Len(parts) >= 2 /\ school2 THEN parts[2] ELSE institution1
        loc2 == IF Len(parts) >= 2 /\ ~school2 THEN parts[2] ELSE None
        loc3 == IF Len(parts) >= 3 /\ loc2 \in {None, <<>>} THEN parts[3] ELSE loc2
    IN  [degree |-> IF two THEN (IF Len(b) > 1 THEN mloc.degree ELSE None) ELSE degree1,
         institution |-> IF two THEN mhead.inst ELSE institution2,
         graduation_year |-> GraduationYear(b),
         gpa |-> None,
         field_of_study |-> None,
         location |-> IF two THEN (IF Len(b) > 1 THEN mloc.loc ELSE None) ELSE loc3,
         start_date |-> IF mhead.found THEN Strip(mhead.start) ELSE None,
         end_date |-> IF mhead.found THEN Strip(mhead.end) ELSE None]

_extract_education(sections) ==
    LET blocks == _collect_blocks(Get(sections, "education"))
    IN  [k \in 1..Len(blocks) |-> EducationEntry(blocks[k])]

(* what the extractors make of the sections of a text.  The texts of the   *)
(* parser machines hold no e-mail address, telephone number or link, and   *)
(* no projects or certifications section: these extractors                 *)
(* return None and [] for them.                                            *)
RuleExtraction(t) ==
    LET sections == _split_sections(t)
        summary_lines == SelectSeq(Get(sections, "summary"), LAMBDA ln : Strip(ln) # <<>>)
        chunk == [i \in 1..(IF Len(summary_lines) < 6 THEN Len(summary_lines) ELSE 6) |->
                     Strip(summary_lines[i])]
        awards == SelectSeq(Get(sections, "awards"), LAMBDA ln : Strip(ln) # <<>>)
        absent(key) == IF Get(sections, key) = <<>> THEN <<>> ELSE <<"not modelled">>
    IN  [personal_info |->
             [name |-> _guess_name_from_header(Get(sections, "header")),
              email |-> None, phone |-> None, location |-> None,
              linkedin |-> None, github |-> None, website |-> None],
         summary |-> IF chunk = <<>> THEN None ELSE Join(chunk, <<" ">>),
         skills |-> _extract_skills_generic(sections),
         experience |-> _extract_experience(sections),
         education |-> _extract_education(sections),
         projects |-> absent("projects"),
         certifications |-> absent("certifications"),
         languages |-> Flatten([i \in 1..Len(Get(sections, "languages")) |->
                          SplitItems(Get(sections, "languages")[i], {",", "/", "|", ";"})]),
         awards |-> [i \in 1..Len(awards) |-> Strip(awards[i])]]

(* the metadata and statistics both parse paths add to the fields *)
Enriched(fields, t, method, now) ==
    [personal_info |-> fields.personal_info,
     summary |-> fields.summary,
     skills |-> fields.skills,
     experience |-> fields.experience,
     education |-> fields.education,
     projects |-> fields.projects,
     certifications |-> fields.certifications,
     languages |-> fields.languages,
     awards |-> fields.awards,
     raw_text |-> t,
     parsing_method |-> method,
     parsed_at |-> now,
     statistics |->
         [total_experience_years |-> _calculate_total_experience(fields.experience, now),
          skill_count |-> Len(fields.skills["technical"]) + Len(fields.skills["soft"])
                             + Len(fields.skills["domain"]),
          education_count |-> Len(fields.education),
          project_count |-> Len(fields.projects),
          certification_count |-> Len(fields.certifications)]]

(* if not personal_info.get("location"): the location is the vote; the    *)
(* rules leave it None                                                     *)
BackfillLocation(fields, t) ==
    [fields EXCEPT !.personal_info.location =
        _majority_vote_location(Get(_split_sections(t), "header"), t,
            fields.experience, fields.education)]

(* a variant that gives up on a text without content *)
Mut_basic_parse_fallback_rejects_empty(t, now) ==
    IF Strip(t) = <<>>
    THEN [error |-> "empty", parsing_method |-> "failed", parsed_at |-> now]
    ELSE Enriched(BackfillLocation(RuleExtraction(t), t), t, "rules_only", now)

(* _basic_parse_fallback_with_sections(text), called at the time now; no   *)
(* extractor raises on the texts of the vocabularies                       *)
_basic_parse_fallback_with_sections(t, now) ==
    Enriched(BackfillLocation(RuleExtraction(t), t), t, "rules_only", now)

(* Parser machines *)

MaxParseLines == 3

(* the lines of the resumes of the parser machines *)
ParseLines ==
    {<<>>, <<" ">>, Words(<<"Jane", "Doe">>), <<"Experience">>,
     <<"Jan", " ", "2022", " ", "-", " ", "Present">>,
     <<"2020", " ", "to", " ", "2021">>,
     <<"Engineer", " ", "-", " ", "Acme", " ", "-", " ", "Remote">>}

ParseTexts == TextsOfLines(ParseLines, MaxParseLines)

(* the clock counts months; it starts in January of ClockYear *)
ClockYear == 2023
MaxTicks == 2
ClockStart == ClockYear * 12

(* Re-parsing one normalized text *)
MaxCalls == 2

ReparseInit ==
    /\ machine = "reparse"
    /\ pc = "start"
    /\ input_text \in {_normalize_text_keep_layout(t) : t \in ParseTexts}
    /\ content_type = ""
    /\ parser_env = NoResult
    /\ utcnow = ClockStart
    /\ extracted = <<>>
    /\ parsed = <<>>
    /\ MatchIdle /\ FitIdle /\ AtsIdle /\ MergeIdle /\ StoreIdle

(* time passes between two calls *)
tick ==
    /\ machine = "reparse"
    /\ utcnow < ClockStart + MaxTicks
    /\ utcnow' = utcnow + 1
    /\ UNCHANGED <<machine, pc, input_text, content_type, parser_env, extracted, parsed>>
    /\ UNCHANGED <<matchVars, fitVars, atsVars, mergeVars, storeVars>>

(* await _basic_parse_fallback_with_sections(text) *)
basic_parse_fallback_with_sections ==
    /\ machine = "reparse"
    /\ Len(parsed) < MaxCalls
    /\ parsed' = Append(parsed, _basic_parse_fallback_with_sections(input_text, utcnow))
    /\ pc' = "parsed"
    /\ UNCHANGED <<machine, input_text, content_type, parser_env, utcnow, extracted>>
    /\ UNCHANGED <<matchVars, fitVars, atsVars, mergeVars, storeVars>>

ReparseNext == tick \/ basic_parse_fallback_with_sections

ReparseSpec == ReparseInit /\ [][ReparseNext]_vars

(* the fields of a parse result that describe the resume: all but the      *)
(* time stamp of the call                                                  *)
ResumeFields(r) == [k \in (DOMAIN r) \ {"parsed_at"} |-> r[k]]

(* C14: two rule-based parses of the same normalized text give the same    *)
(* ParsedResume in every field, the derived statistics included, whatever  *)
(* the two times of the calls are.                                         *)
C14_ReparseIdentical ==
    \A i, j \in DOMAIN parsed : ResumeFields(parsed[i]) = ResumeFields(parsed[j])

(* Parsing a resume file *)

PDF == "application/pdf"
DOCX == "application/vnd.openxmlformats-officedocument.wordprocessingml.document"

(* the keys of a ParsedResume *)
ResumeKeys == {"personal_info", "summary", "skills", "experience", "education",
               "projects", "certifications", "languages", "awards"}

(* the outcome of a call *)
Returned(call, arg, value) ==
    [call |-> call, arg |-> arg, kind |-> "returned", value |-> value]

Raised(call, arg) ==
    [call |-> call, arg |-> arg, kind |-> "raised", value |-> NoResult]

(* EnhancedResumeParser.parse_resume(file_content, content_type) for a     *)
(* file that holds the text raw, called at the time now.  The language     *)
(* model, when there is one, raises or replies with a structure without    *)
(* content, which the rules then fill in.  An unsupported type and a text  *)
(* without content raise inside the call, which then parses the empty      *)
(* text with the rules.                                                    *)
parse_resume(raw, ctype, env, now) ==
    LET extracted_text == _normalize_text_keep_layout(raw)
        failed == ctype \notin {PDF, DOCX} \/ Strip(extracted_text) = <<>>
        cleaned_text == IF failed THEN <<>> ELSE extracted_text
    IN  IF ~failed /\ env.langchain_available /\ env.llm = "replies"
        THEN Enriched(RuleExtraction(cleaned_text), cleaned_text,
                      "openai_langchain", now)
        ELSE _basic_parse_fallback_with_sections(cleaned_text, now)

(* the keys of the result of the basic parser of ResumeParser *)
BasicKeys == {"raw_text", "skills", "experience", "education", "contact_info",
              "summary", "languages", "certifications"}

(* ResumeParser.parse_resume(file_path, file_type), which reads the file   *)
(* twice: opened tells whether the file could be opened at line 121, and   *)
(* reopened whether it is still there when _extract_text opens it (line    *)
(* 153).  The call of the enhanced parser is not awaited, so that reading  *)
(* its result raises and the basic parser takes over.  The extractors of   *)
(* a PDF swallow what opening the file raises, the one of a DOCX raises    *)
(* it again.  The values of the fields of the result are not modelled      *)
ResumeParser_parse_resume(ftype, opened, reopened) ==
    IF ~opened THEN Raised("ResumeParser.parse_resume", ftype)
    ELSE IF ftype \notin {".pdf", ".docx"}
    THEN Raised("ResumeParser.parse_resume", ftype)
    ELSE IF ftype = ".docx" /\ ~reopened
    THEN Raised("ResumeParser.parse_resume", ftype)
    ELSE Returned("ResumeParser.parse_resume", ftype,
                  [k \in BasicKeys |-> "basic"])

(* the number of lines of the file of a parse call *)
MaxFileLines == 2

ContentTypes == {PDF, DOCX, "text/plain"}
FileTypes == {".pdf", ".docx", "pdf", "txt"}

ParseInit ==
    /\ machine = "parse"
    /\ pc = "start"
    /\ input_text \in TextsOfLines(ParseLines, MaxFileLines)
    /\ content_type = ""
    /\ parser_env \in [langchain_available : {FALSE}, llm : {"none"},
                       readable : BOOLEAN]
                      \cup [langchain_available : {TRUE},
                            llm : {"raises", "replies"}, readable : BOOLEAN]
    /\ utcnow = ClockStart
    /\ extracted = <<>>
    /\ parsed = <<>>
    /\ MatchIdle /\ FitIdle /\ AtsIdle /\ MergeIdle /\ StoreIdle

(* await enhanced_resume_parser.parse_resume(file_content, content_type) *)
enhanced_parse_resume ==
    /\ machine = "parse"
    /\ pc = "start"
    /\ \E ctype \in ContentTypes :
          /\ content_type' = ctype
          /\ parsed' = Append(parsed,
                 Returned("EnhancedResumeParser.parse_resume", ctype,
                          parse_resume(input_text, ctype, parser_env, utcnow)))
    /\ pc' = "done"
    /\ UNCHANGED <<machine, input_text, parser_env, utcnow, extracted>>
    /\ UNCHANGED <<matchVars, fitVars, atsVars, mergeVars, storeVars>>

(* await resume_parser.parse_resume(file_path, file_type), up to the end   *)
(* of the awaited open of the file (lines 117-121): the call raises when   *)
(* the file cannot be opened, and is suspended once it is open             *)
resume_parser_open ==
    /\ machine = "parse"
    /\ pc = "start"
    /\ \E ftype \in FileTypes :
          /\ content_type' = ftype
          /\ IF parser_env.readable
             THEN /\ pc' = "parse_resume_opened"
                  /\ UNCHANGED parsed
             ELSE /\ pc' = "done"
                  /\ parsed' = Append(parsed,
                         ResumeParser_parse_resume(ftype, FALSE, FALSE))
    /\ UNCHANGED <<machine, input_text, parser_env, utcnow, extracted>>
    /\ UNCHANGED <<matchVars, fitVars, atsVars, mergeVars, storeVars>>

(* file_content = await f.read() (line 122): the read of the open file,    *)
(* which succeeds whether or not the path still names the file; the call   *)
(* is suspended while it runs.  Nothing below uses what was read           *)
resume_parser_read ==
    /\ machine = "parse"
    /\ pc = "parse_resume_opened"
    /\ pc' = "parse_resume_suspended"
    /\ UNCHANGED <<machine, input_text, content_type, parser_env, utcnow,
                   extracted, parsed>>
    /\ UNCHANGED <<matchVars, fitVars, atsVars, mergeVars, storeVars>>

(* os.remove(file_path) of the handler that deletes a resume               *)
(* (app/api/resume.py, line 267), run before the parse call opens the      *)
(* file or while the call is suspended                                     *)
os_remove ==
    /\ machine = "parse"
    /\ pc \in {"start", "parse_resume_opened", "parse_resume_suspended"}
    /\ parser_env.readable
    /\ parser_env' = [parser_env EXCEPT !.readable = FALSE]
    /\ UNCHANGED <<machine, pc, input_text, content_type, utcnow, extracted, parsed>>
    /\ UNCHANGED <<matchVars, fitVars, atsVars, mergeVars, storeVars>>

(* resume_parser.parse_resume from the call of the enhanced parser to the  *)
(* return (lines 124-173); _extract_text opens the file again              *)
resume_parser_parse_resume ==
    /\ machine = "parse"
    /\ pc = "parse_resume_suspended"
    /\ parsed' = Append(parsed,
           ResumeParser_parse_resume(content_type, TRUE, parser_env.readable))
    /\ pc' = "done"
    /\ UNCHANGED <<machine, input_text, content_type, parser_env, utcnow, extracted>>
    /\ UNCHANGED <<matchVars, fitVars, atsVars, mergeVars, storeVars>>

ParseNext ==
    \/ enhanced_parse_resume
    \/ resume_parser_open
    \/ resume_parser_read
    \/ os_remove
    \/ resume_parser_parse_resume

ParseSpec == ParseInit /\ [][ParseNext]_vars

(* C11: a parse call never fails: no exception leaves it, and what it      *)
(* returns is a ParsedResume with every section key, never a record of a   *)
(* failed parse.                                                           *)
C11_NeverFails ==
    \A i \in DOMAIN parsed :
        /\ parsed[i].kind = "returned"
        /\ ResumeKeys \subseteq DOMAIN parsed[i].value
        /\ "error" \notin DOMAIN parsed[i].value
        /\ parsed[i].value.parsing_method # "failed"

(* a ParsedResume without content: every list empty, every optional        *)
(* scalar null                                                             *)
IsEmptyResume(r) ==
    /\ ResumeKeys \subseteq DOMAIN r
    /\ \A k \in {"experience", "education", "projects", "certifications",
                 "languages", "awards"} : r[k] = <<>>
    /\ \A b \in {"technical", "soft", "domain"} : r.skills[b] = <<>>
    /\ \A k \in {"name", "email", "phone", "location", "linkedin", "github",
                 "website"} : r.personal_info[k] = None
    /\ r.summary = None

(* C12: parsing a resume whose text is empty returns, without raising, a   *)
(* ParsedResume with every list field empty and every optional scalar      *)
(* null.                                                                   *)
C12_EmptyTextEmptyResume ==
    \A i \in DOMAIN parsed :
        (/\ parsed[i].call = "EnhancedResumeParser.parse_resume"
         /\ Strip(_normalize_text_keep_layout(input_text)) = <<>>)
        => /\ parsed[i].kind = "returned"
           /\ IsEmptyResume(parsed[i].value)

C12_Witness ==
    /\ pc = "done"
    /\ content_type = PDF
    /\ input_text = <<" ", LF>>
    /\ Len(parsed) = 1
    /\ parsed[1].call = "EnhancedResumeParser.parse_resume"
    /\ IsEmptyResume(parsed[1].value)

(* Rule-based job parser.  A job description is a sequence of characters. *)

(* the text that stands in for a job description without content *)
NoJobDescription ==
    <<"N", "o", " ", "j", "o", "b", " ", "d", "e", "s", "c", "r", "i", "p", "t", "i", "o", "n", " ", "p", "r", "o", "v", "i", "d", "e", "d", ".", " ", "P", "l", "e", "a", "s", "e", " ", "p", "r", "o", "v", "i", "d", "e", " ", "a", " ", "j", "o", "b", " ", "d", "e", "s", "c", "r", "i", "p", "t", "i", "o", "n", " ", "t", "o", " ", "a", "n", "a", "l", "y", "z", "e", ".">>

(* the skills of skill_patterns, category after category *)
skill_patterns ==
    <<<<"p", "y", "t", "h", "o", "n">>,
      <<"j", "a", "v", "a", "s", "c", "r", "i", "p", "t">>,
      <<"j", "a", "v", "a">>,
      <<"c", "+", "+">>,
      <<"c", "#">>,
      <<"p", "h", "p">>,
      <<"r", "u", "b", "y">>,
      <<"g", "o">>,
      <<"r", "u", "s", "t">>,
      <<"s", "w", "i", "f", "t">>,
      <<"k", "o", "t", "l", "i", "n">>,
      <<"s", "c", "a", "l", "a">>,
      <<"r">>,
      <<"m", "a", "t", "l", "a", "b">>,
      <<"p", "e", "r", "l">>,
      <<"t", "y", "p", "e", "s", "c", "r", "i", "p", "t">>,
      <<"d", "a", "r", "t">>,
      <<"e", "l", "i", "x", "i", "r">>,
      <<"c", "l", "o", "j", "u", "r", "e">>,
      <<"r", "e", "a", "c", "t">>,
      <<"a", "n", "g", "u", "l", "a", "r">>,
      <<"v", "u", "e">>,
      <<"n", "o", "d", "e", ".", "j", "s">>,
      <<"e", "x", "p", "r", "e", "s", "s">>,
      <<"d", "j", "a", "n", "g", "o">>,
      <<"f", "l", "a", "s", "k">>,
      <<"s", "p", "r", "i", "n", "g">>,
      <<"l", "a", "r", "a", "v", "e", "l">>,
      <<"r", "a", "i", "l", "s">>,
      <<"a", "s", "p", ".", "n", "e", "t">>,
      <<"h", "t", "m", "l">>,
      <<"c", "s", "s">>,
      <<"s", "a", "s", "s">>,
      <<"l", "e", "s", "s">>,
      <<"w", "e", "b", "p", "a", "c", "k">>,
      <<"b", "a", "b", "e", "l">>,
      <<"m", "y", "s", "q", "l">>,
      <<"p", "o", "s", "t", "g", "r", "e", "s", "q", "l">>,
      <<"m", "o", "n", "g", "o", "d", "b">>,
      <<"r", "e", "d", "i", "s">>,
      <<"e", "l", "a", "s", "t", "i", "c", "s", "e", "a", "r", "c", "h">>,
      <<"c", "a", "s", "s", "a", "n", "d", "r", "a">>,
      <<"o", "r", "a", "c", "l", "e">>,
      <<"s", "q", "l", " ", "s", "e", "r", "v", "e", "r">>,
      <<"s", "q", "l", "i", "t", "e">>,
      <<"d", "y", "n", "a", "m", "o", "d", "b">>,
      <<"n", "e", "o", "4", "j">>,
      <<"i", "n", "f", "l", "u", "x", "d", "b">>,
      <<"a", "w", "s">>,
      <<"a", "z", "u", "r", "e">>,
      <<"g", "c", "p">>,
      <<"g", "o", "o", "g", "l", "e", " ", "c", "l", "o", "u", "d">>,
      <<"h", "e", "r", "o", "k", "u">>,
      <<"d", "i", "g", "i", "t", "a", "l", "o", "c", "e", "a", "n">>,
      <<"l", "i", "n", "o", "d", "e">>,
      <<"c", "l", "o", "u", "d", "f", "l", "a", "r", "e">>,
      <<"v", "e", "r", "c", "e", "l">>,
      <<"n", "e", "t", "l", "i", "f", "y">>,
      <<"d", "o", "c", "k", "e", "r">>,
      <<"k", "u", "b", "e", "r", "n", "e", "t", "e", "s">>,
      <<"j", "e", "n", "k", "i", "n", "s">>,
      <<"g", "i", "t", "l", "a", "b", " ", "c", "i">>,
      <<"g", "i", "t", "h", "u", "b", " ", "a", "c", "t", "i", "o", "n", "s">>,
      <<"t", "e", "r", "r", "a", "f", "o", "r", "m">>,
      <<"a", "n", "s", "i", "b", "l", "e">>,
      <<"c", "h", "e", "f">>,
      <<"p", "u", "p", "p", "e", "t">>,
      <<"v", "a", "g", "r", "a", "n", "t">>,
      <<"h", "e", "l", "m">>,
      <<"p", "r", "o", "m", "e", "t", "h", "e", "u", "s">>,
      <<"g", "r", "a", "f", "a", "n", "a">>,
      <<"c", "o", "m", "m", "u", "n", "i", "c", "a", "t", "i", "o", "n">>,
      <<"l", "e", "a", "d", "e", "r", "s", "h", "i", "p">>,
      <<"t", "e", "a", "m", "w", "o", "r", "k">>,
      <<"p", "r", "o", "b", "l", "e", "m", " ", "s", "o", "l", "v", "i", "n", "g">>,
      <<"a", "n", "a", "l", "y", "t", "i", "c", "a", "l", " ", "t", "h", "i", "n", "k", "i", "n", "g">>,
      <<"p", "r", "o", "j", "e", "c", "t", " ", "m", "a", "n", "a", "g", "e", "m", "e", "n", "t">>,
      <<"t", "i", "m", "e", " ", "m", "a", "n", "a", "g", "e", "m", "e", "n", "t">>,
      <<"a", "d", "a", "p", "t", "a", "b", "i", "l", "i", "t", "y">>,
      <<"c", "r", "e", "a", "t", "i", "v", "i", "t", "y">>,
      <<"m", "e", "n", "t", "o", "r", "i", "n", "g">>>>

(* text.lower() *)
LowerText(t) == [i \in 1..Len(t) |-> Lower(t[i])]

(* _extract_skills(text): the skills found in the lower-case text; the     *)
(* list is built from a set, so its order is not fixed and the model keeps *)
(* the set                                                                 *)
_extract_skills(t) ==
    {skill_patterns[k] : k \in {j \in 1..Len(skill_patterns) :
                                   HasSubSeq(LowerText(t), skill_patterns[j])}}

(* _extract_experience_level(text): the first level found, in title case *)
_extract_experience_level(t) ==
    LET levels == <<<<"e","n","t","r","y"," ","l","e","v","e","l">>,
                    <<"j","u","n","i","o","r">>,
                    <<"m","i","d"," ","l","e","v","e","l">>,
                    <<"s","e","n","i","o","r">>,
                    <<"l","e","a","d">>,
                    <<"p","r","i","n","c","i","p","a","l">>,
                    <<"a","r","c","h","i","t","e","c","t">>>>
        titles == <<<<"E","n","t","r","y"," ","L","e","v","e","l">>,
                    <<"J","u","n","i","o","r">>,
                    <<"M","i","d"," ","L","e","v","e","l">>,
                    <<"S","e","n","i","o","r">>,
                    <<"L","e","a","d">>,
                    <<"P","r","i","n","c","i","p","a","l">>,
                    <<"A","r","c","h","i","t","e","c","t">>>>
        found == {k \in 1..Len(levels) : HasSubSeq(LowerText(t), levels[k])}
    IN  IF found = {} THEN <<>>
        ELSE titles[CHOOSE k \in found : \A j \in found : k <= j]

(* the result of a pattern search on a text that holds none of the words   *)
(* every pattern needs: no match.  A text that holds one is outside the    *)
(* model.                                                                  *)
NoMatchWithout(t, needed, nothing) ==
    IF \A k \in 1..Len(needed) : ~HasSubSeq(LowerText(t), needed[k])
    THEN nothing ELSE <<"not modelled">>

(* _basic_parse_job(raw_data) for raw data made of a description and a     *)
(* link, without title, company name or location                           *)
_basic_parse_job(raw_data) ==
    LET description == IF raw_data.description = <<>>
                       THEN <<"N","o"," ","j","o","b"," ","d","e","s","c","r","i","p","t","i","o","n",
                              " ","a","v","a","i","l","a","b","l","e">>
                       ELSE raw_data.description
        year == <<<<"y","e","a","r">>>>
        company == <<<<"c","o","m","p","a","n","y">>, <<"w","h","o">>>>
        resp == <<<<"r","e","s","p","o","n","s","i","b","i","l","i","t","i","e","s">>,
                  <<"w","h","a","t">>>>
        qual == <<<<"q","u","a","l","i","f","i","c","a","t","i","o","n","s">>,
                  <<"r","e","q","u","i","r","e","m","e","n","t","s">>,
                  <<"w","h","a","t">>>>
    IN  [title |-> <<>>,
         company |-> [name |-> <<>>,
                      description |-> NoMatchWithout(description, company, <<>>)],
         location |-> [full_location |-> <<>>,
                       is_remote |-> HasSubSeq(LowerText(description),
                                               <<"r","e","m","o","t","e">>),
                       is_hybrid |-> HasSubSeq(LowerText(description),
                                               <<"h","y","b","r","i","d">>)],
         requirements |->
             [required_skills |-> _extract_skills(description),
              experience_level |-> _extract_experience_level(description),
              years_of_experience |-> NoMatchWithout(description, year, <<>>)],
         description |-> description,
         responsibilities |-> NoMatchWithout(description, resp, <<>>),
         qualifications |-> NoMatchWithout(description, qual, <<>>),
         linkedin_url |-> raw_data.url]

(* parse_job_description(job_text, linkedin_url) without a language model, *)
(* or with one that raises: the fields of the ParsedJob, without the       *)
(* generated summary and the raw data                                      *)
parse_job_description(job_text, linkedin_url) ==
    LET stripped == IF job_text = None THEN <<>> ELSE Strip(job_text)
        text == IF stripped = <<>> THEN NoJobDescription ELSE stripped
    IN  _basic_parse_job([description |-> text, url |-> linkedin_url])

MaxJobLen == 3
JobChars == {" ", "\t", LF, "r", "x"}

JobInit ==
    /\ machine = "job"
    /\ pc = "start"
    /\ input_text \in SeqsUpTo(JobChars, MaxJobLen) \cup {None}
    /\ content_type = ""
    /\ parser_env \in [langchain_available : BOOLEAN]
    /\ utcnow = 0
    /\ extracted = <<>>
    /\ parsed = <<>>
    /\ MatchIdle /\ FitIdle /\ AtsIdle /\ MergeIdle /\ StoreIdle

(* await enhanced_job_parser.parse_job_description(job_text); the language *)
(* model, where there is one, raises                                       *)
job_parse_job_description ==
    /\ machine = "job"
    /\ pc = "start"
    /\ parsed' = <<parse_job_description(input_text, None)>>
    /\ pc' = "parsed"
    /\ UNCHANGED <<machine, input_text, content_type, parser_env, utcnow, extracted>>
    /\ UNCHANGED <<matchVars, fitVars, atsVars, mergeVars, storeVars>>

JobNext == job_parse_job_description

JobSpec == JobInit /\ [][JobNext]_vars

(* C13: the rule-based parse of a job description that is empty or white   *)
(* space returns a ParsedJob without content: no required skill, no        *)
(* responsibility, no qualification, no experience level and no years of   *)
(* experience.                                                             *)
C13_EmptyJobEmptyParse ==
    (pc = "parsed" /\ (input_text = None \/ Strip(input_text) = <<>>))
    => /\ parsed[1].requirements.required_skills = {}
       /\ parsed[1].responsibilities = <<>>
       /\ parsed[1].qualifications = <<>>
       /\ parsed[1].requirements.experience_level = <<>>
       /\ parsed[1].requirements.years_of_experience = <<>>

(* the three buckets *)
BucketNames == {"technical", "soft", "domain"}

(* C21: the three buckets are pairwise disjoint and free of duplicates:    *)
(* compared without regard to case, no skill occurs twice in a bucket and  *)
(* no skill occurs in two buckets.                                         *)
C21_DisjointBuckets ==
    pc = "skills_extracted" =>
        /\ \A b \in BucketNames : \A i, j \in DOMAIN extracted[b] :
               i # j => LowerAll(extracted[b][i]) # LowerAll(extracted[b][j])
        /\ \A b1, b2 \in BucketNames : b1 # b2 =>
               \A i \in DOMAIN extracted[b1] : \A j \in DOMAIN extracted[b2] :
                   LowerAll(extracted[b1][i]) # LowerAll(extracted[b2][j])

(* a line of a skills section that holds an item: not blank, not a generic *)
(* heading, not a label, and with a piece left after splitting             *)
IsItemLine(line) ==
    LET ln == Strip(line)
    IN  /\ ln # <<>>
        /\ RStripColons(LowerAll(ln)) \notin GenericHeadings
        /\ ln[Len(ln)] # ":"
        /\ SplitItems(ln, {",", "/", "|", ";"}) # <<>>

(* the lines the extractor reads: those of the skills section, or, when    *)
(* it has none, the lines of the summary, the objective and the profile    *)
(* that announce skills                                                    *)
LinesRead ==
    IF SkillSections["skills"] # <<>> THEN SkillSections["skills"]
    ELSE SelectSeq(SkillSections["summary"] \o SkillSections["objective"]
                       \o SkillSections["profile"],
             LAMBDA line :
                 \E kw \in {<<"skilled", "in">>, <<"proficient", "in">>,
                            <<"experienced", "in">>, <<"expertise", "in">>,
                            <<"knowledge", "of">>} :
                     HasSubSeq(LowerAll(line), Words(kw)))

HasItemLine == \E i \in DOMAIN LinesRead : IsItemLine(LinesRead[i])

(* C22 as stated: a skills section, whatever its lines, gives at least one *)
(* non-empty bucket.                                                       *)
C22_Original ==
    pc = "skills_extracted" => \E b \in BucketNames : extracted[b] # <<>>

(* C22, amended: when the lines read (those of the skills section, or,     *)
(* when the section has none, those of the summary, the objective and the  *)
(* profile that announce skills) hold at least one item line, at least one *)
(* bucket is non-empty; when no line is read, or blank lines only, the     *)
(* three buckets are empty.                                                *)
C22_ItemLineGivesSkills ==
    pc = "skills_extracted" =>
        /\ HasItemLine => \E b \in BucketNames : extracted[b] # <<>>
        /\ (\A i \in DOMAIN LinesRead : Strip(LinesRead[i]) = <<>>)
              => \A b \in BucketNames : extracted[b] = <<>>

(* C22 witness: a skills heading that nothing follows, after a summary     *)
(* that announces a skill: the line of the summary is read                 *)
C22_Witness ==
    /\ pc = "skills_extracted"
    /\ ~parser_env.skills_lines
    /\ parser_env.summary = <<<<"Skilled", " ", "in", " ", "Python">>>>
    /\ parser_env.objective = <<>> /\ parser_env.profile = <<>>
    /\ HasItemLine
    /\ extracted["technical"] = <<<<"Skilled", " ", "in", " ", "Python">>>>

(* Total experience of a list of entries *)

MaxEntries == 2

(* the start and end dates of the entries: recognised dates, the sentinel  *)
(* of an open span, a season that is no date, and a missing date           *)
StartDates == {None, <<"2020">>, <<"Jan", " ", "2022">>, <<"Summer", " ", "2021">>}
EndDates == {None, <<"2021">>, <<"03", "/", "2021">>, <<"Present">>,
             <<"Summer", " ", "2021">>}

ExperienceEntries ==
    [title : {<<"Engineer">>}, start_date : StartDates, end_date : EndDates]

TotalInit ==
    /\ machine = "total"
    /\ pc = "start"
    /\ input_text = <<>>
    /\ content_type = ""
    /\ parser_env = NoResult
    /\ utcnow \in ClockStart..(ClockStart + MaxTicks)
    /\ extracted = <<>>
    /\ parsed \in SeqsUpTo(ExperienceEntries, MaxEntries)
    /\ MatchIdle /\ FitIdle /\ AtsIdle /\ MergeIdle /\ StoreIdle

(* self._calculate_total_experience(result.get("experience", [])) *)
calculate_total_experience ==
    /\ machine = "total"
    /\ pc = "start"
    /\ extracted' = _calculate_total_experience(parsed, utcnow)
    /\ pc' = "totalled"
    /\ UNCHANGED <<machine, input_text, content_type, parser_env, utcnow, parsed,
                   matchVars, fitVars, atsVars, mergeVars, storeVars>>

TotalNext == calculate_total_experience

TotalSpec == TotalInit /\ [][TotalNext]_vars

(* the months the claim gives an entry at the time now: none when the      *)
(* start, or an end that is no sentinel, is not a recognised date          *)
IsSentinel(e) == e # None /\ \E i \in 1..Len(e) : Lower(e[i]) \in {"present", "current", "now"}

ClaimedMonths(x, now) ==
    LET s == _parse_month_year(x.start_date)
        e == _parse_month_year(x.end_date)
        span(a, b) == IF b - a >= 0 THEN b - a ELSE 0
    IN  IF s = NoDate THEN 0
        ELSE IF IsSentinel(x.end_date) THEN span(s, now)
        ELSE IF e = NoDate THEN 0
        ELSE span(s, e)

RECURSIVE SumClaimedMonths(_, _)
SumClaimedMonths(entries, now) ==
    IF entries = <<>> THEN 0
    ELSE ClaimedMonths(Head(entries), now) + SumClaimedMonths(Tail(entries), now)

(* C23: the months of an entry are never negative, the total is their sum  *)
(* (reported in years, one decimal), and an entry whose start or end is    *)
(* not a recognised date, the end being no sentinel, counts 0 months.      *)
C23_UnparsableCountsZero ==
    pc = "totalled" =>
        extracted = Round1(FDiv(SumClaimedMonths(parsed, utcnow), 12))

------------------------------------------------------------------------------
(* The location vote *)

MaxHeaderLines == 2
MaxVotes == 2

(* the header lines of a resume: a name and two places *)
HeaderLines == {<<"Jane", " ", "Doe">>, <<"Toronto", ",", " ", "ON">>,
                <<"Austin", ",", " ", "TX">>}

(* what follows the header: nothing, or an experience section *)
BodyLines == {<<>>, <<<<"Experience">>, <<"Engineer", " ", "-", " ", "Acme", " ", "-", " ", "Remote">>>>}

(* the locations of the entries, as the rules or the language model give   *)
(* them                                                                    *)
ExperienceLocations == {None, <<"Remote">>, <<"Austin", ",", " ", "TX">>}
EducationLocations == {None, <<"Austin", ",", " ", "TX">>}

VoteInit ==
    /\ machine = "vote"
    /\ pc = "start"
    /\ \E h \in SeqsUpTo(HeaderLines, MaxHeaderLines), b \in BodyLines :
           input_text = Join(h \o b, <<LF>>)
    /\ content_type = ""
    /\ parser_env = NoResult
    /\ utcnow = ClockStart
    /\ extracted = <<>>
    /\ parsed \in [exp : SeqsUpTo([location : ExperienceLocations], MaxVotes),
                   edu : SeqsUpTo([location : EducationLocations], MaxVotes)]
    /\ MatchIdle /\ FitIdle /\ AtsIdle /\ MergeIdle /\ StoreIdle

(* personal_info["location"] = _majority_vote_location(                    *)
(*     sections.get("header", []), text, experience, education)            *)
majority_vote_location ==
    /\ machine = "vote"
    /\ pc = "start"
    /\ extracted' = _majority_vote_location(Get(_split_sections(input_text), "header"),
                        input_text, parsed.exp, parsed.edu)
    /\ pc' = "voted"
    /\ UNCHANGED <<machine, input_text, content_type, parser_env, utcnow, parsed,
                   matchVars, fitVars, atsVars, mergeVars, storeVars>>

VoteNext == majority_vote_location

VoteSpec == VoteInit /\ [][VoteNext]_vars

(* the candidates of the header text and the locations of the entries,     *)
(* each occurrence once                                                    *)
CandidatesOnce ==
    _find_location_candidates(Join(Get(_split_sections(input_text), "header"), <<" ">>))
        \o LocationsOf(parsed.exp) \o LocationsOf(parsed.edu)

(* C24: the resolved location is the candidate that occurs most often among *)
(* the candidates of the header text and the locations of the experience    *)
(* and education entries, each occurrence counted once, the first seen of   *)
(* them on a tie, and None only when there is no candidate                  *)
C24_MostFrequentCountedOnce ==
    (machine = "vote" /\ pc = "voted") => extracted = MostFrequent(CandidatesOnce)

------------------------------------------------------------------------------
(* Education machine: the lines of one education section, extracted once *)

MaxEducationLines == 3

EducationLines ==
    {<<"MIT", " ", "2019", " ", "-", " ", "2021">>,
     <<"BSc", " ", "Physics", " ", "Boston", ",", " ", "MA">>,
     <<"Bachelor", " ", "of", " ", "Science", " ", "|", " ", "MIT", " ", "|", " ", "Boston">>,
     <<"State", " ", "University", " ", "1999">>,
     <<"Class", " ", "of", " ", "2020">>,
     <<>>}

EducationInit ==
    /\ machine = "education"
    /\ pc = "start"
    /\ input_text \in TextsOfLines(EducationLines, MaxEducationLines)
    /\ content_type = ""
    /\ parser_env = NoResult
    /\ utcnow = 0
    /\ extracted = <<>>
    /\ parsed = <<>>
    /\ MatchIdle /\ FitIdle /\ AtsIdle /\ MergeIdle /\ StoreIdle

extract_education ==
    /\ machine = "education"
    /\ pc = "start"
    /\ extracted' = _extract_education(("education" :> Split(input_text, LF)))
    /\ pc' = "education_extracted"
    /\ UNCHANGED <<machine, input_text, content_type, parser_env, utcnow, parsed,
                   matchVars, fitVars, atsVars, mergeVars, storeVars>>

EducationNext == extract_education

EducationSpec == EducationInit /\ [][EducationNext]_vars

(* the last year 19xx or 20xx of a block, in full, None when it has none *)
LastYearToken(b) ==
    LET y == SelectSeq(Join(b, <<" ">>), LAMBDA a : a \in YearTokens)
    IN  IF y = <<>> THEN None ELSE <<y[Len(y)]>>

(* C25: the graduation_year of every education block is the last year     *)
(* 19xx or 20xx that occurs anywhere in the block, as its full four        *)
(* digits, and None when the block holds no such year                      *)
C25_GraduationYearFourDigits ==
    (machine = "education" /\ pc = "education_extracted") =>
        LET lines == Split(input_text, LF)
            ranges == BlockRanges(lines)
        IN  /\ Len(extracted) = Len(ranges)
            /\ \A k \in 1..Len(ranges) :
                  extracted[k].graduation_year =
                      LastYearToken(SubSeq(lines, ranges[k][1], ranges[k][2]))

------------------------------------------------------------------------------
(* Suggestion machine: _generate_suggestions applied once to a list of     *)
(* missing skills and a match score                                        *)

MaxMissing == 6

(* list(job_skills - resume_skills): distinct skills in some order *)
MissingOrder == <<"aws", "docker", "go", "java", "kubernetes", "python", "rust", "sql">>

MissingLists ==
    {<<>>} \cup {SubSeq(MissingOrder, a, b) : a, b \in 1..MaxMissing}

SuggestInit ==
    /\ machine = "suggest"
    /\ pc = "start"
    /\ input_text = <<>>
    /\ content_type = ""
    /\ parser_env = NoResult
    /\ utcnow = 0
    /\ extracted = <<>>
    /\ parsed \in [missing_skills : MissingLists, match_score : FitScores]
    /\ MatchIdle /\ FitIdle /\ AtsIdle /\ MergeIdle /\ StoreIdle

generate_suggestions ==
    /\ machine = "suggest"
    /\ pc = "start"
    /\ extracted' = _generate_suggestions(parsed.missing_skills, parsed.match_score)
    /\ pc' = "suggested"
    /\ UNCHANGED <<machine, input_text, content_type, parser_env, utcnow, parsed,
                   matchVars, fitVars, atsVars, mergeVars, storeVars>>

SuggestNext == generate_suggestions

SuggestSpec == SuggestInit /\ [][SuggestNext]_vars

(* C26: the suggestions are, in this order and nothing else: one "Add      *)
(* these skills" item that names the first 5 missing skills, if and only   *)
(* if there is a missing skill; the two tailoring items, if and only if    *)
(* the match score is below 60; the two re-targeting items, if and only if *)
(* the match score is below 40                                             *)
C26_SuggestionsExact ==
    (machine = "suggest" /\ pc = "suggested") =>
        LET missing == parsed.missing_skills
            a == IF missing # <<>> THEN 1 ELSE 0
            t == IF FLt(parsed.match_score, FromInt(60)) THEN 2 ELSE 0
            r == IF FLt(parsed.match_score, FromInt(40)) THEN 2 ELSE 0
            adds == {i \in 1..Len(extracted) :
                        extracted[i].text = "Add these skills to your resume"}
        IN  /\ Len(extracted) = a + t + r
            /\ adds = 1..a
            /\ \A i \in adds :
                  /\ Len(extracted[i].skills) = (IF Len(missing) < 5 THEN Len(missing) ELSE 5)
                  /\ \A j \in 1..Len(extracted[i].skills) : extracted[i].skills[j] = missing[j]
            /\ t = 2 =>
                  /\ extracted[a + 1].text =
                        "Consider tailoring your resume to better match the job requirements"
                  /\ extracted[a + 2].text = "Highlight relevant experience and achievements"
            /\ r = 2 =>
                  /\ extracted[a + t + 1].text =
                        "This position may not be the best fit for your current skillset"
                  /\ extracted[a + t + 2].text =
                        "Consider applying to roles that better match your experience"

(* C26 witness: six missing skills and a score below 40 gave five items,   *)
(* the first naming five skills                                            *)
C26_Witness ==
    /\ machine = "suggest" /\ pc = "suggested"
    /\ Len(parsed.missing_skills) = 6
    /\ parsed.match_score = FDiv(79, 2)
    /\ Len(extracted) = 5
    /\ Len(extracted[1].skills) = 5

------------------------------------------------------------------------------
(* The document store: backend/app/services/firebase_simple.py and the     *)
(* handlers of backend/app/api/analytics_new.py and onboarding.py that     *)
(* write the collections resumes, analytics and users.  A document id is   *)
(* the position of the document in its collection.  The models of          *)
(* resume_simple.py (kept under app/models) are built without an error.    *)

(* settings.allowed_extensions and settings.max_file_size (core/config.py) *)
allowed_extensions == {".pdf", ".docx", ".doc"}
max_file_size == 10485760

(* allowed_types of the onboarding upload, and its own size limit *)
allowed_types ==
    {"application/pdf",
     "application/vnd.openxmlformats-officedocument.wordprocessingml.document"}
onboarding_max_size == 10485760

(* the files sent: a PDF, a text file, and a PDF over the size limits *)
UploadedFiles ==
    {[extension |-> ".pdf", content_type |-> "application/pdf", size |-> 1],
     [extension |-> ".txt", content_type |-> "text/plain", size |-> 1],
     [extension |-> ".pdf", content_type |-> "application/pdf",
      size |-> max_file_size + 1]}

(* the keys of the skills dict of a parsed resume (_extract_skills_generic) *)
(* parsed_data of the resume an onboarding upload stores, as far as the    *)
(* handler and the analysis read it: the raw text, none found or some,     *)
(* set(parsed_data['skills']), the keys of the dict, and the summary,      *)
(* None for a text without a summary section                               *)
OnboardingParses ==
    {[raw_text |-> <<>>, skills |-> SkillBuckets, summary |-> None],
     [raw_text |-> <<"Summary", "Engineer">>, skills |-> SkillBuckets,
      summary |-> <<"Engineer">>]}

(* ParsedResumeData(..., summary=parsed_data.get("summary", ""), ...)      *)
(* raises: summary is declared str, and None is no str                     *)
ParsedResumeDataRaises(parsed_data) == parsed_data.summary = None

(* parsed_data upload-resume stores (lines 258-298): ParsedResumeData with *)
(* the fixed raw_text and skills [], the two lists of the dict joined      *)
UploadedText ==
    <<"Resume", "content", "extracted", "(AI", "parsing", "coming", "soon", "with",
      "LangChain", "+", "OpenAI)">>

UploadedParse == [raw_text |-> UploadedText, skills |-> {}]

(* request.job_description, and the posting scrape_linkedin_job returns:   *)
(* Null, no linkedin_url was sent or the scraping failed                   *)
JobDescriptions == {<<"Resume", "parsing", "developer">>}

ScrapedJobs == {Null}

(* str(request.job_description or 'No description provided') *)
DescriptionOr(jd) ==
    IF StrIsEmpty(jd) THEN <<"No", "description", "provided">> ELSE jd

(* JobDescriptionData(...).dict() of create_analytics (lines 96-178), as   *)
(* far as the analysis reads it                                            *)
JobDescriptionData(jd, scraped_job_data) ==
    IF scraped_job_data # Null
    THEN [description |-> scraped_job_data.description,
          parsed_skills |-> scraped_job_data.required_skills]
    ELSE [description |-> DescriptionOr(jd), parsed_skills |-> {}]

(* the users documents are made outside the backend, which only updates    *)
(* them: a user starts with one, that names no default resume (0), or      *)
(* without one                                                             *)
StoreInit ==
    /\ machine = "store"
    /\ pc = "serving"
    /\ resumes = <<>>
    /\ analytics = <<>>
    /\ users \in [Users -> {Null, [default_resume_id |-> 0]}]
    /\ calls = {}
    /\ response = NoResult
    /\ served = 0
    /\ MatchIdle /\ FitIdle /\ AtsIdle /\ MergeIdle /\ ParserIdle

(* POST /analytics/create *)
create_analytics ==
    /\ machine = "store"
    /\ served < MaxRequests
    /\ served' = served + 1
    /\ Len(analytics) < MaxAnalytics
    /\ \E user_id \in Users, jd \in JobDescriptions, scraped_job_data \in ScrapedJobs :
          /\ analytics' = Append(analytics,
                 [user_id |-> user_id,
                  job_description |-> JobDescriptionData(jd, scraped_job_data),
                  resume |-> Null, results |-> Null,
                  status |-> "in_process", step_number |-> 1])
          /\ Responded(user_id, 200)
    /\ UNCHANGED <<machine, pc, resumes, users, calls>>
    /\ UNCHANGED <<matchVars, fitVars, atsVars, mergeVars, parserVars>>

(* the upload-resume calls in flight that have not created their resume *)
Creating ==
    {call \in calls : call.op = "upload_resume_for_analytics" /\ call.at = "read"}

(* POST /analytics/upload-resume, with an analytics_id or without (0), up  *)
(* to the awaited read of the file (lines 216-234): the extension is       *)
(* checked, and the handler is suspended while the file is read            *)
upload_resume_for_analytics_read ==
    /\ machine = "store"
    /\ served < MaxRequests
    /\ served' = served + 1
    /\ \E user_id \in Users, file \in UploadedFiles, analytics_id \in 0..MaxAnalytics :
          IF file.extension \notin allowed_extensions
          THEN /\ Responded(user_id, 400)
               /\ UNCHANGED calls
          ELSE /\ Cardinality(calls) < MaxRunning
               /\ Len(resumes) + Cardinality(Creating) < MaxResumes
               /\ calls' = calls \cup
                      {[op |-> "upload_resume_for_analytics", at |-> "read",
                        user_id |-> user_id, analytics_id |-> analytics_id,
                        size |-> file.size]}
               /\ UNCHANGED response
    /\ UNCHANGED <<machine, pc, resumes, analytics, users>>
    /\ UNCHANGED <<matchVars, fitVars, atsVars, mergeVars, parserVars>>

(* POST /analytics/upload-resume, from the check of the size to the        *)
(* creation of the resume document (lines 235-312), and the response when  *)
(* no analytics_id was sent                                                *)
upload_resume_for_analytics_create ==
    /\ machine = "store"
    /\ UNCHANGED served
    /\ \E call \in calls :
          /\ call.op = "upload_resume_for_analytics" /\ call.at = "read"
          /\ IF call.size > max_file_size
             THEN /\ Responded(call.user_id, 400)
                  /\ calls' = calls \ {call}
                  /\ UNCHANGED resumes
             ELSE LET resume_data == [user_id |-> call.user_id, is_default |-> FALSE,
                                      type |-> "uploaded", parsed_data |-> UploadedParse]
                  IN  /\ resumes' = Append(resumes, resume_data)
                      /\ IF call.analytics_id = 0
                         THEN /\ Responded(call.user_id, 200)
                              /\ calls' = calls \ {call}
                         ELSE /\ calls' = (calls \ {call}) \cup
                                     {[op |-> "upload_resume_for_analytics",
                                       at |-> "created", user_id |-> call.user_id,
                                       analytics_id |-> call.analytics_id,
                                       resume_id |-> Len(resumes) + 1,
                                       resume_data |-> resume_data]}
                              /\ UNCHANGED response
    /\ UNCHANGED <<machine, pc, analytics, users>>
    /\ UNCHANGED <<matchVars, fitVars, atsVars, mergeVars, parserVars>>

(* the update of the analytics document that ends the three handlers which *)
(* attach a resume, and the response: 404 when update_analytics returns    *)
(* False                                                                   *)
Attached(call) ==
    /\ analytics' = update_analytics(call.analytics_id, call.user_id,
           [resume |-> ResumeData(call.resume_id, call.resume_data),
            status |-> "resume_added"])
    /\ Responded(call.user_id,
           IF Owns(analytics, call.analytics_id, call.user_id) THEN 200 ELSE 404)
    /\ calls' = calls \ {call}

(* POST /analytics/upload-resume, from the update of the analytics         *)
(* document to the response (lines 314-352)                                *)
upload_resume_for_analytics ==
    /\ machine = "store"
    /\ UNCHANGED served
    /\ \E call \in calls :
          /\ call.op = "upload_resume_for_analytics" /\ call.at = "created"
          /\ Attached(call)
    /\ UNCHANGED <<machine, pc, resumes, users>>
    /\ UNCHANGED <<matchVars, fitVars, atsVars, mergeVars, parserVars>>

(* POST /analytics/add-resume, up to the read of the resume (lines         *)
(* 363-381)                                                                *)
add_existing_resume_to_analytics_get ==
    /\ machine = "store"
    /\ served < MaxRequests
    /\ served' = served + 1
    /\ Cardinality(calls) < MaxRunning
    /\ \E user_id \in Users, resume_id \in 1..MaxResumes, analytics_id \in 1..MaxAnalytics :
          LET resume_data == get_resume(resume_id, user_id)
          IN  IF resume_data = Null
              THEN /\ Responded(user_id, 404)
                   /\ UNCHANGED calls
              ELSE /\ calls' = calls \cup
                          {[op |-> "add_existing_resume_to_analytics",
                            user_id |-> user_id, analytics_id |-> analytics_id,
                            resume_id |-> resume_id, resume_data |-> resume_data]}
                   /\ UNCHANGED response
    /\ UNCHANGED <<machine, pc, resumes, analytics, users>>
    /\ UNCHANGED <<matchVars, fitVars, atsVars, mergeVars, parserVars>>

(* POST /analytics/add-resume, from the update of the analytics document   *)
(* to the response (lines 383-413)                                         *)
add_existing_resume_to_analytics ==
    /\ machine = "store"
    /\ UNCHANGED served
    /\ \E call \in calls :
          /\ call.op = "add_existing_resume_to_analytics"
          /\ Attached(call)
    /\ UNCHANGED <<machine, pc, resumes, users>>
    /\ UNCHANGED <<matchVars, fitVars, atsVars, mergeVars, parserVars>>

(* POST /analytics/link-default-resume, up to the read of the users        *)
(* document (lines 424-440): no document, or one that names no default     *)
(* resume, is answered 404                                                 *)
link_default_resume_to_analytics_user ==
    /\ machine = "store"
    /\ served < MaxRequests
    /\ served' = served + 1
    /\ Cardinality(calls) < MaxRunning
    /\ \E user_id \in Users, analytics_id \in 1..MaxAnalytics :
          LET user_doc == users[user_id]
          IN  IF user_doc = Null \/ user_doc.default_resume_id = 0
              THEN /\ Responded(user_id, 404)
                   /\ UNCHANGED calls
              ELSE /\ calls' = calls \cup
                          {[op |-> "link_default_resume_to_analytics",
                            at |-> "user", user_id |-> user_id,
                            analytics_id |-> analytics_id,
                            resume_id |-> user_doc.default_resume_id]}
                   /\ UNCHANGED response
    /\ UNCHANGED <<machine, pc, resumes, analytics, users>>
    /\ UNCHANGED <<matchVars, fitVars, atsVars, mergeVars, parserVars>>

(* POST /analytics/link-default-resume, the read of the resume the users   *)
(* document names (lines 442-448): get_document asks for no owner          *)
link_default_resume_to_analytics_get ==
    /\ machine = "store"
    /\ UNCHANGED served
    /\ \E call \in calls :
          /\ call.op = "link_default_resume_to_analytics" /\ call.at = "user"
          /\ LET resume_data == get_document(resumes, call.resume_id)
             IN  IF resume_data = Null
                 THEN /\ Responded(call.user_id, 404)
                      /\ calls' = calls \ {call}
                 ELSE /\ calls' = (calls \ {call}) \cup
                             {[op |-> "link_default_resume_to_analytics",
                               at |-> "resume", user_id |-> call.user_id,
                               analytics_id |-> call.analytics_id,
                               resume_id |-> call.resume_id,
                               resume_data |-> resume_data]}
                      /\ UNCHANGED response
    /\ UNCHANGED <<machine, pc, resumes, analytics, users>>
    /\ UNCHANGED <<matchVars, fitVars, atsVars, mergeVars, parserVars>>

(* POST /analytics/link-default-resume, from the update of the analytics   *)
(* document to the response (lines 450-480)                                *)
link_default_resume_to_analytics ==
    /\ machine = "store"
    /\ UNCHANGED served
    /\ \E call \in calls :
          /\ call.op = "link_default_resume_to_analytics" /\ call.at = "resume"
          /\ Attached(call)
    /\ UNCHANGED <<machine, pc, resumes, users>>
    /\ UNCHANGED <<matchVars, fitVars, atsVars, mergeVars, parserVars>>

(* SimplifiedFirebaseService.update_document("users", user_id,             *)
(* {"default_resume_id": resume_id}), called by a client of the service:   *)
(* the update of a document that is not there raises, and the call         *)
(* returns False.  Nothing is asked about the resume                       *)
call_update_document ==
    /\ machine = "store"
    /\ served < MaxRequests
    /\ served' = served + 1
    /\ \E user_id \in Users, resume_id \in 1..Len(resumes) :
          IF users[user_id] # Null
          THEN /\ users' = Updated(users, user_id, [default_resume_id |-> resume_id])
               /\ Responded(user_id, 1)
          ELSE /\ Responded(user_id, 0)
               /\ UNCHANGED users
    /\ UNCHANGED <<machine, pc, resumes, analytics, calls>>
    /\ UNCHANGED <<matchVars, fitVars, atsVars, mergeVars, parserVars>>

(* POST /onboarding/upload-resume, up to the creation of the resume        *)
(* document (lines 24-106)                                                 *)
upload_onboarding_resume_create ==
    /\ machine = "store"
    /\ served < MaxRequests
    /\ served' = served + 1
    /\ Len(resumes) + Cardinality(Creating) < MaxResumes
    /\ Cardinality(calls) < MaxRunning
    /\ \E user_id \in Users, file \in UploadedFiles, parsed_data \in OnboardingParses :
          IF file.content_type \notin allowed_types \/ file.size > onboarding_max_size
          THEN /\ Responded(user_id, 400)
               /\ UNCHANGED <<resumes, calls>>
          ELSE /\ resumes' = Append(resumes,
                      [user_id |-> user_id, is_default |-> TRUE,
                       type |-> "onboarding", parsed_data |-> parsed_data])
               /\ calls' = calls \cup
                      {[op |-> "upload_onboarding_resume", user_id |-> user_id,
                        resume_id |-> Len(resumes) + 1, parsed_data |-> parsed_data]}
               /\ UNCHANGED response
    /\ UNCHANGED <<machine, pc, analytics, users>>
    /\ UNCHANGED <<matchVars, fitVars, atsVars, mergeVars, parserVars>>

(* POST /onboarding/upload-resume, from the update of the users document   *)
(* to the response (lines 109-157): update_document fails, unnoticed, when *)
(* the user has no users document, and the response, built after both      *)
(* writes, is an error when ParsedResumeData raises                        *)
upload_onboarding_resume ==
    /\ machine = "store"
    /\ UNCHANGED served
    /\ \E call \in calls :
          /\ call.op = "upload_onboarding_resume"
          /\ users' = IF users[call.user_id] = Null THEN users
                      ELSE [users EXCEPT ![call.user_id] =
                               [default_resume_id |-> call.resume_id]]
          /\ Responded(call.user_id,
                 IF ParsedResumeDataRaises(call.parsed_data) THEN 500 ELSE 200)
          /\ calls' = calls \ {call}
    /\ UNCHANGED <<machine, pc, resumes, analytics>>
    /\ UNCHANGED <<matchVars, fitVars, atsVars, mergeVars, parserVars>>

(* the user's resumes that are marked as the default one *)
DefaultsOf(user_id) ==
    {d \in 1..Len(resumes) : Owns(resumes, d, user_id) /\ resumes[d].is_default}

(* set_default_resume, up to the query of the user's default resumes       *)
(* (lines 257-264): the call remembers the documents it will unset         *)
set_default_resume_query ==
    /\ machine = "store"
    /\ served < MaxRequests
    /\ served' = served + 1
    /\ Cardinality(calls) < MaxRunning
    /\ \E user_id \in Users, resume_id \in 1..MaxResumes :
          calls' = calls \cup
              {[op |-> "set_default_resume", user_id |-> user_id,
                resume_id |-> resume_id, user_resumes_docs |-> DefaultsOf(user_id)]}
    /\ UNCHANGED <<machine, pc, resumes, analytics, users, response>>
    /\ UNCHANGED <<matchVars, fitVars, atsVars, mergeVars, parserVars>>

(* the resumes after the batch of a call is committed, the target last *)
Committed(call) ==
    [d \in 1..Len(resumes) |->
        IF d = call.resume_id THEN [resumes[d] EXCEPT !.is_default = TRUE]
        ELSE IF d \in call.user_resumes_docs
        THEN [resumes[d] EXCEPT !.is_default = FALSE]
        ELSE resumes[d]]

(* the call returns True: the target is a resume of the user and the batch *)
(* commits, which it does not when a document it updates is gone           *)
Commits(call) ==
    /\ Owns(resumes, call.resume_id, call.user_id)
    /\ \A d \in call.user_resumes_docs : Exists(resumes, d)

(* set_default_resume, from the read of the target to the return (lines    *)
(* 266-278), and the response of the handler                               *)
set_default_resume ==
    /\ machine = "store"
    /\ UNCHANGED served
    /\ \E call \in calls :
          /\ call.op = "set_default_resume"
          /\ resumes' = IF Commits(call) THEN Committed(call) ELSE resumes
          /\ Responded(call.user_id, IF Commits(call) THEN 200 ELSE 404)
          /\ calls' = calls \ {call}
    /\ UNCHANGED <<machine, pc, analytics, users>>
    /\ UNCHANGED <<matchVars, fitVars, atsVars, mergeVars, parserVars>>

(* SimplifiedFirebaseService.delete_resume, called by a client of the      *)
(* service, up to the read of the document (lines 280-286)                 *)
delete_resume_get ==
    /\ machine = "store"
    /\ served < MaxRequests
    /\ served' = served + 1
    /\ Cardinality(calls) < MaxRunning
    /\ \E user_id \in Users, resume_id \in 1..Len(resumes) :
          IF Owns(resumes, resume_id, user_id)
          THEN /\ calls' = calls \cup
                      {[op |-> "delete_resume", user_id |-> user_id,
                        resume_id |-> resume_id]}
               /\ UNCHANGED response
          ELSE /\ Responded(user_id, 0)
               /\ UNCHANGED calls
    /\ UNCHANGED <<machine, pc, resumes, analytics, users>>
    /\ UNCHANGED <<matchVars, fitVars, atsVars, mergeVars, parserVars>>

(* delete_resume from the deletion to the return (lines 287-288): the call *)
(* returns True whether the document is still there or not                 *)
delete_resume ==
    /\ machine = "store"
    /\ UNCHANGED served
    /\ \E call \in calls :
          /\ call.op = "delete_resume"
          /\ resumes' = IF Exists(resumes, call.resume_id)
                        THEN Deleted(resumes, call.resume_id) ELSE resumes
          /\ Responded(call.user_id, 1)
          /\ calls' = calls \ {call}
    /\ UNCHANGED <<machine, pc, analytics, users>>
    /\ UNCHANGED <<matchVars, fitVars, atsVars, mergeVars, parserVars>>

(* the update_data a client of the service hands to update_resume *)
ResumeUpdates == {[is_default |-> FALSE]}

(* SimplifiedFirebaseService.update_resume, called by a client of the      *)
(* service: the update of a document that is gone raises, so that the      *)
(* call returns True only when it has updated the document it has read     *)
call_update_resume ==
    /\ machine = "store"
    /\ served < MaxRequests
    /\ served' = served + 1
    /\ \E user_id \in Users, resume_id \in 1..Len(resumes),
          update_data \in ResumeUpdates :
          /\ resumes' = update_resume(resume_id, user_id, update_data)
          /\ Responded(user_id, IF Owns(resumes, resume_id, user_id) THEN 1 ELSE 0)
    /\ UNCHANGED <<machine, pc, analytics, users, calls>>
    /\ UNCHANGED <<matchVars, fitVars, atsVars, mergeVars, parserVars>>

StoreNext ==
    \/ create_analytics
    \/ upload_resume_for_analytics_read
    \/ upload_resume_for_analytics_create
    \/ upload_resume_for_analytics
    \/ add_existing_resume_to_analytics_get
    \/ add_existing_resume_to_analytics
    \/ link_default_resume_to_analytics_user
    \/ link_default_resume_to_analytics_get
    \/ link_default_resume_to_analytics
    \/ call_update_document
    \/ perform_analysis
    \/ perform_analysis_update
    \/ upload_onboarding_resume_create
    \/ upload_onboarding_resume
    \/ set_default_resume_query
    \/ set_default_resume
    \/ call_update_resume
    \/ delete_resume_get
    \/ delete_resume
    \/ delete_analytics_get
    \/ delete_analytics

StoreSpec == StoreInit /\ [][StoreNext]_vars

(* C27: whatever the order and the interleaving of the set_default_resume  *)
(* calls and the uploads of one user, at most one resume of the user is    *)
(* marked is_default, and when a set_default_resume call for r answers     *)
(* with success while no other call is running, r is that default          *)
C27_AtMostOneDefault ==
    /\ [](machine = "store" => \A u \in Users : Cardinality(DefaultsOf(u)) <= 1)
    /\ [][(machine = "store" /\ calls # {} /\ calls' = {} /\ response'.status = 200) =>
             \A call \in calls :
                 call.op = "set_default_resume" =>
                     DefaultsOf(call.user_id)' = {call.resume_id}]_vars

(* the step_number documented for a status (models/analytics.py, line 75) *)
StepOf(status) ==
    CASE status = "in_process" -> 1
      [] status = "resume_added" -> 2
      [] status = "completed" -> 3

(* C28: in every analytics document step_number agrees with status: 1      *)
(* while in_process, 2 when resume_added, 3 when completed                 *)
C28_StepAgreesWithStatus ==
    machine = "store" =>
        \A a \in 1..Len(analytics) :
            Exists(analytics, a) =>
                analytics[a].step_number = StepOf(analytics[a].status)

(* C29: an analytics document holds results only when its status is       *)
(* completed, and they are results of the analysis of the resume and the   *)
(* job it holds now                                                        *)
C29_ResultsOfAttachedResume ==
    machine = "store" =>
        \A a \in 1..Len(analytics) :
            (Exists(analytics, a) /\ analytics[a].results # Null) =>
                /\ analytics[a].status = "completed"
                /\ analytics[a].resume # Null
                /\ analytics[a].results.basic_results \in
                      _perform_basic_analysis(
                          analytics[a].resume.parsed_data.skills,
                          analytics[a].job_description.parsed_skills,
                          analytics[a].resume.parsed_data.raw_text,
                          analytics[a].job_description.description)

====
